---- MODULE Spec2Model ----
(***************************************************************************)
(* A model of the LLM-output-to-structured-data pipeline of the Cloud Cost *)
(* Optimizer: call_llm (profile_extractor.py), extract_json_from_text      *)
(* (utils.py), extract_project_profile / create_fallback_profile           *)
(* (profile_extractor.py), generate_mock_billing (billing_generator.py)    *)
(* and analyze_costs_and_recommend (cost_analyser.py).                     *)
(*                                                                         *)
(* Each function is one state machine over its own variables; the          *)
(* variables of the machines that do not run stay at their idle values.    *)
(* SpecLLM, SpecExtract, SpecProfile, SpecBilling and SpecAnalysis run one *)
(* function each (a pipeline runs call_llm as its callee); Spec is their   *)
(* union.                                                                  *)
(*                                                                         *)
(* Conventions.  A Python string is a sequence of one-character strings.   *)
(* Numbers are integers (amounts in whole rupees), so round(x, 2) is the   *)
(* identity.  A JSON value is a record tagged by t: "num", "str", "null",  *)
(* "bool", "list", "dict".                                                 *)
(***************************************************************************)
EXTENDS Integers, Sequences, FiniteSets, TLC

VARIABLES
    \* ---- call_llm ----
    api_key,      \* TRUE iff os.getenv("GROQ_API_KEY") is set
    retries,      \* the retries argument
    attempt,      \* the loop variable of "for attempt in range(retries)"
    llm_pc,       \* position in call_llm
    requests,     \* backend requests issued so far
    sleeps,       \* time.sleep(2) calls so far
    last_err,     \* number of the request whose exception is being handled
    llm_out,      \* value returned by call_llm
    llm_err,      \* exception raised by call_llm
    trace,        \* the events of the call, in order
    \* ---- extract_json_from_text ----
    text,         \* the argument
    ex_pc,        \* position
    ex_out,       \* the returned string
    \* ---- extract_project_profile ----
    description,  \* the argument
    pf_pc,        \* position
    profile,      \* the parsed JSON value
    pf_out,       \* the returned profile
    pf_exc,       \* the exception being handled or propagated
    pf_branch,    \* "model" or "fallback": where pf_out comes from
    \* ---- generate_mock_billing ----
    bl_pc,            \* position
    billing_records,  \* the parsed array, trimmed
    valid_records,    \* the records that passed the loop
    bl_out,           \* the returned list
    bl_exc,           \* the exception being handled or raised
    \* ---- analyze_costs_and_recommend ----
    an_pc,            \* position
    billing_data,     \* the argument: the billing records
    total_cost,       \* sum of cost_inr over billing_data
    budget,           \* profile['budget_inr_per_month']
    report,           \* the parsed report, as the function updates it
    an_out,           \* the returned report
    an_exc,           \* the exception being handled or raised
    \* ---- generate_mock_billing, lines 23-36 ----
    pv_pc,            \* position
    hosting,          \* profile['tech_stack'].get('hosting', 'aws')
    provider,         \* the cloud-provider label
    \* ---- CloudCostOptimizer.run_complete_analysis ----
    rn_pc,            \* position
    run,              \* the number of the run, from 1
    desc_exists,      \* self.project_desc_file.exists()
    profile_file,     \* the run that wrote self.profile_file, 0 for none
    billing_file,     \* the same for self.billing_file
    report_file,      \* the same for self.report_file
    stages,           \* what the current run has done, in order
    rn_result         \* how the last run ended

llmVars == <<api_key, retries, attempt, llm_pc, requests, sleeps, last_err,
             llm_out, llm_err, trace>>
exVars == <<text, ex_pc, ex_out>>
pfVars == <<description, pf_pc, profile, pf_out, pf_exc, pf_branch>>
blVars == <<bl_pc, billing_records, valid_records, bl_out, bl_exc>>
anVars == <<an_pc, billing_data, total_cost, budget, report, an_out, an_exc>>
pvVars == <<pv_pc, hosting, provider>>
rnVars == <<rn_pc, run, desc_exists, profile_file, billing_file, report_file,
           stages, rn_result>>
vars == <<llmVars, exVars, pfVars, blVars, anVars, pvVars, rnVars>>

(***************************************************************************)
(* Bounds                                                                  *)
(***************************************************************************)
\* call_llm is run with retries in MinRetries..MaxRetries
MaxRetries == 5
\* free characters (outside the fence markers) of an extractor input
MaxLen == 4
\* run_complete_analysis is run up to MaxRuns times in a row
MaxRuns == 4

MinRetries == 0 - 1

(***************************************************************************)
(* call_llm                                                                *)
(***************************************************************************)
NoneVal == [kind |-> "none"]
NoErr == [kind |-> "noerr"]
\* raise ValueError("GROQ_API_KEY not found in environment variables")
ConfigError == [kind |-> "ValueError", what |-> "config"]
\* the exception of the n-th backend request
BackendError(n) == [kind |-> "BackendError", request |-> n]
\* default of the retries parameter
DefaultRetries == 2

LLMTexts == {[kind |-> "text", id |-> i] : i \in 1..3}

LLMIdle ==
    /\ api_key = FALSE /\ retries = 0 /\ attempt = 0 /\ llm_pc = "idle"
    /\ requests = 0 /\ sleeps = 0 /\ last_err = 0
    /\ llm_out = NoneVal /\ llm_err = NoErr /\ trace = <<>>

\* the state at the call: call_llm(prompt, max_tokens, retries=r)
LLMCall(key, r) ==
    /\ api_key = key /\ retries = r /\ attempt = 0 /\ llm_pc = "start"
    /\ requests = 0 /\ sleeps = 0 /\ last_err = 0
    /\ llm_out = NoneVal /\ llm_err = NoErr /\ trace = <<>>

\* the credential check left out
CheckCredentialSkipped ==
    /\ llm_pc = "start"
    /\ llm_pc' = "loop"
    /\ UNCHANGED <<api_key, retries, attempt, requests, sleeps, last_err,
                   llm_out, llm_err, trace>>

\* api_key = os.getenv(...); if not api_key: raise ValueError(...)
CheckCredential ==
    /\ llm_pc = "start"
    /\ IF ~api_key
         THEN /\ llm_pc' = "raised"
              /\ llm_err' = ConfigError
         ELSE /\ llm_pc' = "loop"
              /\ UNCHANGED llm_err
    /\ UNCHANGED <<api_key, retries, attempt, requests, sleeps, last_err,
                   llm_out, trace>>

\* number of iterations "for attempt in range(retries)" makes
RangeLen(r) == IF r > 0 THEN r ELSE 0

\* for attempt in range(retries): ... ; falling off the loop returns None
LoopHead ==
    /\ llm_pc = "loop"
    /\ IF attempt < RangeLen(retries)
         THEN /\ llm_pc' = "request"
              /\ UNCHANGED llm_out
         ELSE /\ llm_pc' = "returned"
              /\ llm_out' = NoneVal
    /\ UNCHANGED <<api_key, retries, attempt, requests, sleeps, last_err,
                   llm_err, trace>>

\* client.chat.completions.create(...) succeeds: return its content
RequestOK(R) ==
    /\ llm_pc = "request"
    /\ \E resp \in R :
         /\ llm_out' = resp
         /\ llm_pc' = "returned"
    /\ requests' = requests + 1
    /\ trace' = Append(trace, "ok")
    /\ UNCHANGED <<api_key, retries, attempt, sleeps, last_err, llm_err>>

\* client.chat.completions.create(...) raises: enter "except Exception as e"
RequestFail ==
    /\ llm_pc = "request"
    /\ requests' = requests + 1
    /\ last_err' = requests + 1
    /\ llm_pc' = "except"
    /\ trace' = Append(trace, "fail")
    /\ UNCHANGED <<api_key, retries, attempt, sleeps, llm_out, llm_err>>

\* if attempt == retries - 1: raise
IsLastAttemptOffByOne(a, r) == a = r
IsLastAttempt(a, r) == a = r - 1

\* the pause taken before the last error is re-raised too
ExceptSleepsBeforeRaise ==
    /\ llm_pc = "except"
    /\ sleeps' = sleeps + 1
    /\ trace' = Append(trace, "sleep")
    /\ IF IsLastAttempt(attempt, retries)
         THEN /\ llm_pc' = "raised"
              /\ llm_err' = BackendError(last_err)
              /\ UNCHANGED attempt
         ELSE /\ llm_pc' = "loop"
              /\ attempt' = attempt + 1
              /\ UNCHANGED llm_err
    /\ UNCHANGED <<api_key, retries, requests, last_err, llm_out>>
\* the except clause: re-raise on the last attempt, else go on to sleep
Except ==
    /\ llm_pc = "except"
    /\ IF IsLastAttempt(attempt, retries)
         THEN /\ llm_pc' = "raised"
              /\ llm_err' = BackendError(last_err)
         ELSE /\ llm_pc' = "sleep"
              /\ UNCHANGED llm_err
    /\ UNCHANGED <<api_key, retries, attempt, requests, sleeps, last_err,
                   llm_out, trace>>

\* time.sleep(2), then the next iteration
Sleep ==
    /\ llm_pc = "sleep"
    /\ sleeps' = sleeps + 1
    /\ attempt' = attempt + 1
    /\ llm_pc' = "loop"
    /\ trace' = Append(trace, "sleep")
    /\ UNCHANGED <<api_key, retries, requests, last_err, llm_out, llm_err>>

LLMStep(R) ==
    \/ CheckCredential
    \/ LoopHead
    \/ RequestOK(R)
    \/ RequestFail
    \/ Except
    \/ Sleep

(***************************************************************************)
(* Python string operations                                                *)
(***************************************************************************)
Whitespace == {" ", "\n"}

\* s[a:b] for 0 <= a, b <= len(s)
Slice(s, a, b) ==
    LET e == IF b > Len(s) THEN Len(s) ELSE b
    IN IF e <= a THEN <<>> ELSE SubSeq(s, a + 1, e)

\* s starts with p at 0-based index i
MatchAt(s, p, i) ==
    /\ i >= 0
    /\ i + Len(p) <= Len(s)
    /\ \A k \in 1..Len(p) : s[i + k] = p[k]

\* s.find(p, start): the lowest index >= start where p occurs, else -1
Find(s, p, start) ==
    LET hits == {i \in start..(Len(s) - Len(p)) : MatchAt(s, p, i)}
    IN IF hits = {} THEN 0 - 1
       ELSE CHOOSE i \in hits : \A j \in hits : i <= j

\* s.rfind(p): the highest index where p occurs, else -1
RFind(s, p) ==
    LET hits == {i \in 0..(Len(s) - Len(p)) : MatchAt(s, p, i)}
    IN IF hits = {} THEN 0 - 1
       ELSE CHOOSE i \in hits : \A j \in hits : i >= j

\* p in s
Contains(s, p) == Find(s, p, 0) # 0 - 1

\* s.strip()
Strip(s) ==
    LET keep == {i \in 1..Len(s) : s[i] \notin Whitespace}
    IN IF keep = {} THEN <<>>
       ELSE LET lo == CHOOSE i \in keep : \A j \in keep : i <= j
                hi == CHOOSE i \in keep : \A j \in keep : i >= j
            IN SubSeq(s, lo, hi)

(***************************************************************************)
(* extract_json_from_text                                                  *)
(***************************************************************************)
\* the backtick (a TLA+ string cannot hold one, so "~" stands for it)
Tick == "~"
Fence == <<Tick, Tick, Tick>>
FenceJson == Fence \o <<"j", "s", "o", "n">>

\* utils.py 80-91: remove markdown code blocks
StripFence(t) ==
    IF Contains(t, FenceJson)
      THEN LET start == Find(t, FenceJson, 0) + 7
               end == Find(t, Fence, start)
           IN IF end # 0 - 1 THEN Strip(Slice(t, start, end)) ELSE t
    ELSE IF Contains(t, Fence)
      THEN LET start == Find(t, Fence, 0) + 3
               end == Find(t, Fence, start)
           IN IF end # 0 - 1 THEN Strip(Slice(t, start, end)) ELSE t
    ELSE t

\* utils.py 102: the array is tried when its bracket comes first
ArrayFirstAlways(array_start, obj_start) == array_start # 0 - 1
ArrayFirstNoObjectCase(array_start, obj_start) ==
    array_start # 0 - 1 /\ array_start < obj_start
ArrayFirst(array_start, obj_start) ==
    array_start # 0 - 1 /\ (array_start < obj_start \/ obj_start = 0 - 1)

\* the object span not tried once the array was preferred
SelectSpanNoFallThrough(t) ==
    LET array_start == Find(t, <<"[">>, 0)
        array_end == RFind(t, <<"]">>)
        obj_start == Find(t, <<"{">>, 0)
        obj_end == RFind(t, <<"}">>)
    IN IF ArrayFirst(array_start, obj_start)
         THEN (IF array_end # 0 - 1 /\ array_start < array_end
                 THEN Strip(Slice(t, array_start, array_end + 1))
                 ELSE Strip(t))
       ELSE IF obj_start # 0 - 1 /\ obj_end # 0 - 1 /\ obj_start < obj_end
         THEN Strip(Slice(t, obj_start, obj_end + 1))
       ELSE Strip(t)

\* utils.py 93-112: choose the array span, the object span or the whole text
SelectSpan(t) ==
    LET array_start == Find(t, <<"[">>, 0)
        array_end == RFind(t, <<"]">>)
        obj_start == Find(t, <<"{">>, 0)
        obj_end == RFind(t, <<"}">>)
    IN IF /\ ArrayFirst(array_start, obj_start)
          /\ array_end # 0 - 1 /\ array_start < array_end
         THEN Strip(Slice(t, array_start, array_end + 1))
       ELSE IF obj_start # 0 - 1 /\ obj_end # 0 - 1 /\ obj_start < obj_end
         THEN Strip(Slice(t, obj_start, obj_end + 1))
       ELSE Strip(t)

extract_json_from_text(t) ==
    IF t = <<>> THEN <<>> ELSE SelectSpan(StripFence(t))

ExIdle == text = <<>> /\ ex_pc = "idle" /\ ex_out = <<>>

Extract ==
    /\ ex_pc = "start"
    /\ ex_out' = extract_json_from_text(text)
    /\ ex_pc' = "done"
    /\ UNCHANGED text

(***************************************************************************)
(* Inputs of the extractor                                                 *)
(***************************************************************************)
Alphabet == {"[", "]", "{", "}", " ", "x"}
SeqsUpTo(S, n) == UNION {[1..k -> S] : k \in 0..n}

\* Sure! ```json\n{"name":"X"}\n``` Done
ExampleText ==
    <<"S", "u", "r", "e", "!", " ">> \o FenceJson \o
    <<"\n", "{", "\"", "n", "a", "m", "e", "\"", ":", "\"", "X", "\"", "}", "\n">>
    \o Fence \o <<" ", "D", "o", "n", "e">>
ExampleJson ==
    <<"{", "\"", "n", "a", "m", "e", "\"", ":", "\"", "X", "\"", "}">>

Opens == {<<>>, Fence, FenceJson}
Closes == {<<>>, Fence}

(***************************************************************************)
(* JSON values and the Python conversions applied to them                  *)
(***************************************************************************)
Num(n) == [t |-> "num", v |-> n]
Str(s) == [t |-> "str", s |-> s]
Null == [t |-> "null"]
Bool(b) == [t |-> "bool", b |-> b]
List(xs) == [t |-> "list", items |-> xs]
\* a JSON object: a function from its keys to their values
Dict(d) == [t |-> "dict", d |-> d]
\* json.loads raising JSONDecodeError
DecodeError == [t |-> "error"]

Has(d, k) == k \in DOMAIN d
\* d[k] = v
Put(d, k, v) == [x \in (DOMAIN d) \cup {k} |-> IF x = k THEN v ELSE d[x]]

\* the outcome of a computation that may raise
Ok(v) == [ok |-> TRUE, value |-> v]
Raise(e) == [ok |-> FALSE, exc |-> [kind |-> e]]

UpperCase ==
    <<"A", "B", "C", "D", "E", "F", "G", "H", "I", "J", "K", "L", "M",
      "N", "O", "P", "Q", "R", "S", "T", "U", "V", "W", "X", "Y", "Z">>
LowerCase ==
    <<"a", "b", "c", "d", "e", "f", "g", "h", "i", "j", "k", "l", "m",
      "n", "o", "p", "q", "r", "s", "t", "u", "v", "w", "x", "y", "z">>
LowerChar(c) ==
    IF \E i \in 1..26 : UpperCase[i] = c
      THEN LowerCase[CHOOSE i \in 1..26 : UpperCase[i] = c]
      ELSE c
\* s.lower()
Lower(s) == [i \in 1..Len(s) |-> LowerChar(s[i])]

Digits == <<"0", "1", "2", "3", "4", "5", "6", "7", "8", "9">>
IsDigit(c) == \E i \in 1..10 : Digits[i] = c
DigitVal(c) == (CHOOSE i \in 1..10 : Digits[i] = c) - 1

\* int(s) of a string of digits
RECURSIVE DigitsToInt(_)
DigitsToInt(s) ==
    IF s = <<>> THEN 0
    ELSE 10 * DigitsToInt(SubSeq(s, 1, Len(s) - 1)) + DigitVal(s[Len(s)])

RECURSIVE NatToStr(_)
NatToStr(n) ==
    IF n < 10 THEN <<Digits[n + 1]>>
    ELSE NatToStr(n \div 10) \o <<Digits[(n % 10) + 1]>>
\* str(n) of a number
IntToStr(n) == IF n < 0 THEN <<"-">> \o NatToStr(0 - n) ELSE NatToStr(n)

S_None == <<"N", "o", "n", "e">>
S_True == <<"T", "r", "u", "e">>
S_False == <<"F", "a", "l", "s", "e">>

\* str(v); of a list or an object only the enclosing brackets are kept
PyStr(v) ==
    CASE v.t = "num" -> IntToStr(v.v)
      [] v.t = "str" -> v.s
      [] v.t = "null" -> S_None
      [] v.t = "bool" -> (IF v.b THEN S_True ELSE S_False)
      [] v.t = "list" -> <<"[", "]">>
      [] v.t = "dict" -> <<"{", "}">>

\* s.replace(',', '')
RemoveCommas(s) == SelectSeq(s, LAMBDA c : c # ",")

\* float(s): optional sign and digits between optional whitespace (decimal
\* points and exponents are not modelled); anything else is a ValueError
ParseNumber(u) ==
    LET signed == u # <<>> /\ u[1] \in {"-", "+"}
        body == IF signed THEN Tail(u) ELSE u
    IN IF body # <<>> /\ \A i \in 1..Len(body) : IsDigit(body[i])
         THEN Ok(IF signed /\ u[1] = "-" THEN 0 - DigitsToInt(body)
                 ELSE DigitsToInt(body))
         ELSE Raise("ValueError")
PyFloat(s) == ParseNumber(Strip(s))

\* float(str(v).replace(',', ''))
CoerceNumber(v) == PyFloat(RemoveCommas(PyStr(v)))

(***************************************************************************)
(* create_fallback_profile                                                 *)
(***************************************************************************)
S_budget == <<"b", "u", "d", "g", "e", "t">>
S_rupees == <<"r", "u", "p", "e", "e", "s">>
S_inr == <<"i", "n", "r">>
S_rs == <<"r", "s">>
S_react == <<"r", "e", "a", "c", "t">>
S_angular == <<"a", "n", "g", "u", "l", "a", "r">>
S_vue == <<"v", "u", "e">>
S_node == <<"n", "o", "d", "e">>
S_nodejs == <<"n", "o", "d", "e", "j", "s">>
S_python == <<"p", "y", "t", "h", "o", "n">>
S_django == <<"d", "j", "a", "n", "g", "o">>
S_java == <<"j", "a", "v", "a">>
S_mongodb == <<"m", "o", "n", "g", "o", "d", "b">>
S_mongo == <<"m", "o", "n", "g", "o">>
S_postgres == <<"p", "o", "s", "t", "g", "r", "e", "s">>
S_postgresql == <<"p", "o", "s", "t", "g", "r", "e", "s", "q", "l">>
S_mysql == <<"m", "y", "s", "q", "l">>
S_nginx == <<"n", "g", "i", "n", "x">>
S_apache == <<"a", "p", "a", "c", "h", "e">>
S_aws == <<"a", "w", "s">>
S_azure == <<"a", "z", "u", "r", "e">>
S_gcp == <<"g", "c", "p">>
S_scalab == <<"s", "c", "a", "l", "a", "b">>
S_availab == <<"a", "v", "a", "i", "l", "a", "b">>
S_security == <<"s", "e", "c", "u", "r", "i", "t", "y">>
S_scalability == <<"s", "c", "a", "l", "a", "b", "i", "l", "i", "t", "y">>
S_google_cloud ==
    <<"g", "o", "o", "g", "l", "e", " ", "c", "l", "o", "u", "d">>
S_high_availability ==
    <<"h", "i", "g", "h", " ", "a", "v", "a", "i", "l", "a", "b", "i", "l",
      "i", "t", "y">>
S_CloudApplication ==
    <<"C", "l", "o", "u", "d", " ", "A", "p", "p", "l", "i", "c", "a", "t",
      "i", "o", "n">>
S_CloudProject ==
    <<"C", "l", "o", "u", "d", " ", "P", "r", "o", "j", "e", "c", "t">>

\* the budget used when none is given
DefaultBudget == 5000

FiveKeys == {"frontend", "backend", "database", "proxy", "hosting"}

\* the end of the run of digits that starts at index i of s (i - 1 when
\* s[i] is no digit)
DigitRunEnd(s, i) ==
    CHOOSE j \in (i - 1)..Len(s) :
        /\ \A k \in i..j : IsDigit(s[k])
        /\ j = Len(s) \/ ~IsDigit(s[j + 1])

\* the same for a run of whitespace
SpaceRunEnd(s, i) ==
    CHOOSE j \in (i - 1)..Len(s) :
        /\ \A k \in i..j : s[k] \in Whitespace
        /\ j = Len(s) \/ s[j + 1] \notin Whitespace

\* re.search(r'(\d+)\s*(?:rupees|inr|rs)', s): group(1) of the leftmost
\* match, <<>> when there is none
BudgetMatch(s) ==
    LET unitAt(k) == \/ MatchAt(s, S_rupees, k - 1)
                     \/ MatchAt(s, S_inr, k - 1)
                     \/ MatchAt(s, S_rs, k - 1)
        hits == {i \in 1..Len(s) :
                    /\ IsDigit(s[i])
                    /\ unitAt(SpaceRunEnd(s, DigitRunEnd(s, i) + 1) + 1)}
    IN IF hits = {} THEN <<>>
       ELSE LET i == CHOOSE h \in hits : \A g \in hits : h <= g
            IN SubSeq(s, i, DigitRunEnd(s, i))

\* profile_extractor.py 157-163
FallbackBudget(desc_lower) ==
    IF Contains(desc_lower, S_budget) /\ BudgetMatch(desc_lower) # <<>>
      THEN DigitsToInt(BudgetMatch(desc_lower))
      ELSE DefaultBudget

\* the frontend keywords tried in the opposite order
FallbackTechStackVueFirst(desc_lower) ==
    LET in(k) == Contains(desc_lower, k)
    IN [frontend |->
            IF in(S_vue) THEN Str(S_vue)
            ELSE IF in(S_angular) THEN Str(S_angular)
            ELSE IF in(S_react) THEN Str(S_react) ELSE Null,
        backend |->
            IF in(S_node) \/ in(S_nodejs) THEN Str(S_nodejs)
            ELSE IF in(S_python) \/ in(S_django) THEN Str(S_python)
            ELSE IF in(S_java) THEN Str(S_java) ELSE Null,
        database |->
            IF in(S_mongodb) \/ in(S_mongo) THEN Str(S_mongodb)
            ELSE IF in(S_postgres) \/ in(S_postgresql) THEN Str(S_postgresql)
            ELSE IF in(S_mysql) THEN Str(S_mysql) ELSE Null,
        proxy |->
            IF in(S_nginx) THEN Str(S_nginx)
            ELSE IF in(S_apache) THEN Str(S_apache) ELSE Null,
        hosting |->
            IF in(S_aws) THEN Str(S_aws)
            ELSE IF in(S_azure) THEN Str(S_azure)
            ELSE IF in(S_gcp) \/ in(S_google_cloud) THEN Str(S_gcp) ELSE Null]
\* profile_extractor.py 165-205
FallbackTechStack(desc_lower) ==
    LET in(k) == Contains(desc_lower, k)
    IN [frontend |->
            IF in(S_react) THEN Str(S_react)
            ELSE IF in(S_angular) THEN Str(S_angular)
            ELSE IF in(S_vue) THEN Str(S_vue) ELSE Null,
        backend |->
            IF in(S_node) \/ in(S_nodejs) THEN Str(S_nodejs)
            ELSE IF in(S_python) \/ in(S_django) THEN Str(S_python)
            ELSE IF in(S_java) THEN Str(S_java) ELSE Null,
        database |->
            IF in(S_mongodb) \/ in(S_mongo) THEN Str(S_mongodb)
            ELSE IF in(S_postgres) \/ in(S_postgresql) THEN Str(S_postgresql)
            ELSE IF in(S_mysql) THEN Str(S_mysql) ELSE Null,
        proxy |->
            IF in(S_nginx) THEN Str(S_nginx)
            ELSE IF in(S_apache) THEN Str(S_apache) ELSE Null,
        hosting |->
            IF in(S_aws) THEN Str(S_aws)
            ELSE IF in(S_azure) THEN Str(S_azure)
            ELSE IF in(S_gcp) \/ in(S_google_cloud) THEN Str(S_gcp) ELSE Null]

\* profile_extractor.py 207-214
FallbackRequirements(desc_lower) ==
    (IF Contains(desc_lower, S_scalab) THEN <<Str(S_scalability)>> ELSE <<>>)
    \o (IF Contains(desc_lower, S_availab)
          THEN <<Str(S_high_availability)>> ELSE <<>>)
    \o (IF Contains(desc_lower, S_security) THEN <<Str(S_security)>> ELSE <<>>)

create_fallback_profile(desc) ==
    LET desc_lower == Lower(desc)
    IN Dict([name |-> Str(S_CloudApplication),
             budget_inr_per_month |-> Num(FallbackBudget(desc_lower)),
             description |-> Str(Slice(desc, 0, 200)),
             tech_stack |-> Dict(FallbackTechStack(desc_lower)),
             non_functional_requirements |->
                 List(FallbackRequirements(desc_lower))])

(***************************************************************************)
(* extract_project_profile                                                 *)
(***************************************************************************)
\* json.loads(extract_json_from_text(response)): a response of the backend is
\* represented by what it parses to; None is extracted as "" and fails
Loads(resp) == IF resp.kind = "none" THEN DecodeError ELSE resp.json

\* profile_extractor.py 100-101
FixName(d) ==
    IF ~Has(d, "name") THEN Put(d, "name", Str(S_CloudProject)) ELSE d

\* profile_extractor.py 103-106
FixBudget(d) ==
    IF ~Has(d, "budget_inr_per_month")
      THEN Ok(Put(d, "budget_inr_per_month", Num(DefaultBudget)))
      ELSE LET f == CoerceNumber(d.budget_inr_per_month)
           IN IF f.ok THEN Ok(Put(d, "budget_inr_per_month", Num(f.value)))
              ELSE f

\* profile_extractor.py 108-109
FixDescription(d, desc) ==
    IF ~Has(d, "description")
      THEN Put(d, "description", Str(Slice(desc, 0, 100))) ELSE d

\* profile_extractor.py 111-118
FixTechStack(d) ==
    IF ~Has(d, "tech_stack") \/ d.tech_stack.t # "dict"
      THEN Put(d, "tech_stack", Dict([k \in FiveKeys |-> Null]))
      ELSE d

\* profile_extractor.py 120-123
FixRequirements(d) ==
    IF ~Has(d, "non_functional_requirements")
      THEN Put(d, "non_functional_requirements", List(<<>>))
    ELSE IF d.non_functional_requirements.t # "list"
      THEN Put(d, "non_functional_requirements",
               List(<<d.non_functional_requirements>>))
    ELSE d

\* profile_extractor.py 125-128
NormalizeTechStack(d) ==
    LET ts == d.tech_stack.d
    IN Put(d, "tech_stack",
           Dict([k \in DOMAIN ts |->
                    IF ts[k].t = "str" THEN Str(Lower(ts[k].s)) ELSE ts[k]]))

\* profile_extractor.py 99-133 on the parsed value p: on anything but an
\* object the membership test or the item assignment raises TypeError
ValidateProfile(p, desc) ==
    IF p.t # "dict" THEN Raise("TypeError")
    ELSE LET b == FixBudget(FixName(p.d))
         IN IF ~b.ok THEN b
            ELSE Ok(Dict(NormalizeTechStack(FixRequirements(FixTechStack(
                        FixDescription(b.value, desc))))))

\* a handler that lets everything but a decode error through
ProfileHandlerDecodeOnly(exc) ==
    IF exc.kind = "JSONDecodeError" THEN "fallback" ELSE "raise"

\* a handler that lets the errors of call_llm through
ProfileHandlerNotCallErrors(exc) ==
    IF exc.kind = "JSONDecodeError" THEN "fallback"
    ELSE IF exc = ConfigError \/ exc.kind = "BackendError" THEN "raise"
    ELSE "fallback"

\* profile_extractor.py 135-143: "except json.JSONDecodeError" and
\* "except Exception" both return the fallback profile
ProfileHandler(exc) ==
    IF exc.kind = "JSONDecodeError" THEN "fallback" ELSE "fallback"

PfIdle ==
    /\ description = <<>> /\ pf_pc = "idle" /\ profile = Null
    /\ pf_out = Null /\ pf_exc = NoErr /\ pf_branch = "none"

\* extract_project_profile(desc) is called
PfCall(desc) ==
    /\ description = desc /\ pf_pc = "call" /\ profile = Null
    /\ pf_out = Null /\ pf_exc = NoErr /\ pf_branch = "none"

\* line 92: call_llm raised inside the try block
PfCallRaised ==
    /\ pf_pc = "call" /\ llm_pc = "raised"
    /\ pf_exc' = llm_err
    /\ pf_pc' = "handler"
    /\ UNCHANGED <<description, profile, pf_out, pf_branch>>

\* lines 92-97: call_llm returned; extract the JSON text and parse it
PfParse ==
    /\ pf_pc = "call" /\ llm_pc = "returned"
    /\ IF Loads(llm_out) = DecodeError
         THEN /\ pf_exc' = [kind |-> "JSONDecodeError"]
              /\ pf_pc' = "handler"
              /\ UNCHANGED profile
         ELSE /\ profile' = Loads(llm_out)
              /\ pf_pc' = "validate"
              /\ UNCHANGED pf_exc
    /\ UNCHANGED <<description, pf_out, pf_branch>>

\* lines 99-133: validate and fix the fields, return the profile
PfValidate ==
    /\ pf_pc = "validate"
    /\ LET r == ValidateProfile(profile, description)
       IN IF r.ok
            THEN /\ pf_out' = r.value
                 /\ pf_branch' = "model"
                 /\ pf_pc' = "done"
                 /\ UNCHANGED pf_exc
            ELSE /\ pf_exc' = r.exc
                 /\ pf_pc' = "handler"
                 /\ UNCHANGED <<pf_out, pf_branch>>
    /\ UNCHANGED <<description, profile>>

\* lines 135-143: the except clauses
PfHandler ==
    /\ pf_pc = "handler"
    /\ IF ProfileHandler(pf_exc) = "fallback"
         THEN /\ pf_out' = create_fallback_profile(description)
              /\ pf_branch' = "fallback"
              /\ pf_pc' = "done"
         ELSE /\ pf_pc' = "raised"
              /\ UNCHANGED <<pf_out, pf_branch>>
    /\ UNCHANGED <<description, profile, pf_exc>>

PfStep == PfCallRaised \/ PfParse \/ PfValidate \/ PfHandler

(***************************************************************************)
(* Inputs of extract_project_profile                                       *)
(***************************************************************************)
\* a key the object does not have
Absent == [t |-> "absent"]
\* the object with the keys of fields whose value is not Absent
MakeDict(fields) ==
    Dict([k \in {x \in DOMAIN fields : fields[x] # Absent} |-> fields[k]])

S_8_000 == <<"8", ",", "0", "0", "0">>
S_abc == <<"a", "b", "c">>
S_Shop == <<"S", "h", "o", "p">>
S_React == <<"R", "e", "a", "c", "t">>
S_AWS == <<"A", "W", "S">>
S_ExampleDescription ==
    <<"S", "h", "o", "p", " ", "i", "n", " ", "R", "e", "a", "c", "t", ",",
      " ", "N", "o", "d", "e", "J", "S", ",", " ", "M", "o", "n", "g", "o",
      "D", "B", " ", "o", "n", " ", "A", "W", "S", ";", " ", "b", "u", "d",
      "g", "e", "t", " ", "8", "0", "0", "0", " ", "r", "u", "p", "e", "e",
      "s">>
S_PlainDescription ==
    <<"a", " ", "d", "j", "a", "n", "g", "o", " ", "s", "i", "t", "e">>

BudgetValues ==
    {Absent, Num(8000), Num(0), Num(0 - 500), Str(S_8_000), Str(S_abc),
     Null, Bool(TRUE), List(<<>>)}
TechStackValues ==
    {Absent, Str(S_aws), Dict(<<>>),
     Dict([frontend |-> Str(S_React)]),
     Dict([frontend |-> Str(S_React), backend |-> Null,
           database |-> Str(S_mongodb), proxy |-> Null,
           hosting |-> Str(S_AWS)]),
     Dict([frontend |-> Null, backend |-> Str(S_nodejs),
           database |-> Null, proxy |-> Null, hosting |-> Null,
           cache |-> Num(1)])}
RequirementValues == {Absent, List(<<Str(S_security)>>), Str(S_security)}

ProfileJson ==
    {DecodeError, List(<<>>), List(<<Str(S_react)>>), Str(S_abc), Num(5),
     Null}
    \cup {MakeDict([name |-> n, budget_inr_per_month |-> b,
                    description |-> d, tech_stack |-> ts,
                    non_functional_requirements |-> r]) :
            n \in {Absent, Str(S_Shop)}, b \in BudgetValues,
            d \in {Absent, Str(S_abc)}, ts \in TechStackValues,
            r \in RequirementValues}
ProfileResponses == {[kind |-> "text", json |-> j] : j \in ProfileJson}
S_Angular == <<"A", "n", "g", "u", "l", "a", "r">>
S_vue_js == <<"v", "u", "e", ".", "j", "s">>
S_javascript ==
    <<"j", "a", "v", "a", "s", "c", "r", "i", "p", "t">>
S_Django == <<"D", "j", "a", "n", "g", "o">>
S_Postgres == <<"P", "o", "s", "t", "g", "r", "e", "s">>
S_Apache == <<"A", "p", "a", "c", "h", "e">>
S_Azure == <<"A", "z", "u", "r", "e">>
S_on_Google_Cloud ==
    <<"o", "n", " ", "G", "o", "o", "g", "l", "e", " ", "C", "l", "o", "u",
      "d">>
S_8000_rupees ==
    <<"8", "0", "0", "0", " ", "r", "u", "p", "e", "e", "s">>
S_5_000_inr ==
    <<"5", ",", "0", "0", "0", " ", "I", "N", "R">>
S_70rs == <<"7", "0", "r", "s">>
S_Budget == <<"B", "u", "d", "g", "e", "t">>

\* descriptions run against every response of ProfileResponses
BaseDescriptions == {<<>>, S_PlainDescription, S_ExampleDescription}
\* descriptions of one or two phrases, run against FallbackResponses
Phrases ==
    {S_React, S_Angular, S_vue_js, S_node, S_javascript, S_Django, S_python,
     S_mongo, S_Postgres, S_mysql, S_nginx, S_Apache, S_AWS, S_Azure, S_gcp,
     S_on_Google_Cloud, S_Budget, S_8000_rupees, S_5_000_inr, S_70rs}
PhraseDescriptions ==
    Phrases \cup {x \o <<" ">> \o y : x \in Phrases, y \in Phrases}
Descriptions == BaseDescriptions \cup PhraseDescriptions
\* a response that does not parse, one that parses to no object and one
\* that is a complete profile
FallbackResponses ==
    {[kind |-> "text", json |-> j] :
        j \in {DecodeError, Null,
               MakeDict([name |-> Str(S_Shop),
                         budget_inr_per_month |-> Num(8000),
                         description |-> Str(S_abc),
                         tech_stack |-> Dict([frontend |-> Str(S_React),
                                              backend |-> Null,
                                              database |-> Str(S_mongodb),
                                              proxy |-> Null,
                                              hosting |-> Str(S_AWS)]),
                         non_functional_requirements |->
                             List(<<Str(S_security)>>)])}}
\* the responses the backend is run with for a description
ResponsesFor(desc) ==
    IF desc \in BaseDescriptions THEN ProfileResponses ELSE FallbackResponses

(***************************************************************************)
(* generate_mock_billing                                                   *)
(***************************************************************************)
\* billing_generator.py 149-150
RequiredFields ==
    <<"month", "service", "resource_id", "region", "usage_type",
      "usage_quantity", "unit", "cost_inr", "desc">>
\* billing_generator.py 140, 183: need at least 12
MinRecords == 12
\* billing_generator.py 144-146: trimming to 20
TrimRecords == 20

\* isinstance(v, (int, float)); a bool is an int
IsNumber(v) == v.t \in {"num", "bool"}
\* the number a numeric value counts as
NumVal(v) == IF v.t = "bool" THEN (IF v.b THEN 1 ELSE 0) ELSE v.v
\* hash(v) raises TypeError
Unhashable(v) == v.t \in {"list", "dict"}

Keep(r) == [res |-> "keep", record |-> r]
Skip == [res |-> "skip"]
Abort(e) == [res |-> "abort", exc |-> [kind |-> e]]

\* lines 161-165 and 171-175: a value that is not a number is replaced by
\* float(str(value).replace(',', '')); the bare except turns any failure of
\* the conversion into the ValueError that skips the record
Coerced(d, field, f) ==
    IF f.ok THEN Ok(Put(d, field, Num(f.value))) ELSE Raise("ValueError")
CoerceField(d, field) ==
    IF IsNumber(d[field]) THEN Ok(d)
    ELSE Coerced(d, field, CoerceNumber(d[field]))

\* line 167: if record['cost_inr'] < 0
CostRejected(d) == NumVal(d.cost_inr) < 0

\* lines 156-158 on an object
MissingField(d) == \E i \in 1..Len(RequiredFields) : ~Has(d, RequiredFields[i])

\* lines 170-177 on the outcome u of the conversion of usage_quantity: the
\* record is appended whatever the quantity is
CheckUsage(u) == IF ~u.ok THEN Skip ELSE Keep(Dict(u.value))

\* lines 167-177 on the outcome c of the conversion of cost_inr
CheckCost(c) ==
    IF ~c.ok THEN Skip
    ELSE IF CostRejected(c.value) THEN Skip
    ELSE CheckUsage(CoerceField(c.value, "usage_quantity"))

\* lines 154-181, one iteration of the loop.  "field not in record" raises
\* TypeError on a number, a bool or None, which "except ValueError" does not
\* catch; a string or a list that does not hold the nine names lacks a field
ValidateRecord(record) ==
    IF record.t \in {"num", "bool", "null"} THEN Abort("TypeError")
    ELSE IF record.t \in {"str", "list"} THEN Skip
    ELSE IF MissingField(record.d) THEN Skip
    ELSE CheckCost(CoerceField(record.d, "cost_inr"))

\* the outcome of the loop from the outcomes of its iterations: the first
\* exception that leaves the loop, or else the kept records in order
Collect(results) ==
    IF \E i \in 1..Len(results) : results[i].res = "abort"
      THEN [ok |-> FALSE,
            exc |-> results[CHOOSE i \in 1..Len(results) :
                              /\ results[i].res = "abort"
                              /\ \A j \in 1..(i - 1) :
                                    results[j].res # "abort"].exc]
      ELSE LET kept == SelectSeq(results, LAMBDA r : r.res = "keep")
           IN Ok([i \in 1..Len(kept) |-> kept[i].record])

\* lines 152-181: the loop over billing_records
ValidateRecords(records) ==
    Collect([i \in 1..Len(records) |-> ValidateRecord(records[i])])

\* the final count check left out
TooFewValidNever(valid) == FALSE
\* line 183: if len(valid_records) < 12
TooFewValid(valid) == Len(valid) < MinRecords

\* line 187
RECURSIVE SumCost(_)
SumCost(records) ==
    IF records = <<>> THEN 0
    ELSE NumVal(Head(records).d.cost_inr) + SumCost(Tail(records))

\* lines 136-146: the checks on the parsed value: an array, of at least 12
\* elements, of which the first 20 are kept
\* the last 20 elements kept in place of the first 20
CheckBatchKeepsLast(v) ==
    IF v.t # "list" THEN Raise("ValueError")
    ELSE IF Len(v.items) < MinRecords THEN Raise("ValueError")
    ELSE IF Len(v.items) > TrimRecords
      THEN Ok(SubSeq(v.items, Len(v.items) - TrimRecords + 1, Len(v.items)))
    ELSE Ok(v.items)
\* the batch left untrimmed
CheckBatchNoTrim(v) ==
    IF v.t # "list" THEN Raise("ValueError")
    ELSE IF Len(v.items) < MinRecords THEN Raise("ValueError")
    ELSE Ok(v.items)
CheckBatch(v) ==
    IF v.t # "list" THEN Raise("ValueError")
    ELSE IF Len(v.items) < MinRecords THEN Raise("ValueError")
    ELSE IF Len(v.items) > TrimRecords
      THEN Ok(SubSeq(v.items, 1, TrimRecords))
    ELSE Ok(v.items)

\* lines 183-209: after the loop; service_costs[service] raises TypeError
\* when a service is a list or an object
FinishBatch(valid) ==
    IF TooFewValid(valid) THEN Raise("ValueError")
    ELSE IF \E i \in 1..Len(valid) : Unhashable(valid[i].d.service)
      THEN Raise("TypeError")
    ELSE Ok(valid)

\* validate_billing_record
TypeOK_Field(field, v) ==
    IF field \in {"usage_quantity", "cost_inr"} THEN IsNumber(v)
    ELSE v.t = "str"
validate_billing_record(record) ==
    IF \E i \in 1..Len(RequiredFields) :
          \/ ~Has(record.d, RequiredFields[i])
          \/ ~TypeOK_Field(RequiredFields[i], record.d[RequiredFields[i]])
      THEN FALSE
    ELSE IF NumVal(record.d.cost_inr) < 0 THEN FALSE
    ELSE IF NumVal(record.d.usage_quantity) <= 0 THEN FALSE
    ELSE TRUE

BlIdle ==
    /\ bl_pc = "idle" /\ billing_records = <<>> /\ valid_records = <<>>
    /\ bl_out = NoneVal /\ bl_exc = NoErr

\* generate_mock_billing(profile) is called
BlCall ==
    /\ bl_pc = "call" /\ billing_records = <<>> /\ valid_records = <<>>
    /\ bl_out = NoneVal /\ bl_exc = NoErr

\* line 127: call_llm raised, outside the try block: the error propagates
BlCallRaised ==
    /\ bl_pc = "call" /\ llm_pc = "raised"
    /\ bl_exc' = llm_err
    /\ bl_pc' = "raised"
    /\ UNCHANGED <<billing_records, valid_records, bl_out>>

\* lines 127-146: call_llm returned; extract and parse the JSON text, check
\* that it is an array of at least 12 records, keep the first 20
BlParse ==
    /\ bl_pc = "call" /\ llm_pc = "returned"
    /\ IF Loads(llm_out) = DecodeError
         THEN /\ bl_exc' = [kind |-> "JSONDecodeError"]
              /\ bl_pc' = "handler"
              /\ UNCHANGED billing_records
         ELSE LET c == CheckBatch(Loads(llm_out))
              IN IF c.ok
                   THEN /\ billing_records' = c.value
                        /\ bl_pc' = "validate"
                        /\ UNCHANGED bl_exc
                   ELSE /\ bl_exc' = c.exc
                        /\ bl_pc' = "handler"
                        /\ UNCHANGED billing_records
    /\ UNCHANGED <<valid_records, bl_out>>

\* lines 183-209 on the outcome f: return the list or enter the handlers
BlReturn(f) ==
    IF f.ok
      THEN /\ bl_out' = List(f.value)
           /\ bl_pc' = "done"
           /\ UNCHANGED bl_exc
      ELSE /\ bl_exc' = f.exc
           /\ bl_pc' = "handler"
           /\ UNCHANGED bl_out

\* lines 152-209 on the outcome v of the loop
BlAfterLoop(v) ==
    /\ valid_records' = (IF v.ok THEN v.value ELSE <<>>)
    /\ BlReturn(IF v.ok THEN FinishBatch(v.value) ELSE v)

\* lines 148-209: validate each record, check the count, return the list
BlValidate ==
    /\ bl_pc = "validate"
    /\ BlAfterLoop(ValidateRecords(billing_records))
    /\ UNCHANGED billing_records

\* a handler that answers a failure with an empty bill
BlHandlerReturnsEmpty ==
    /\ bl_pc = "handler"
    /\ bl_out' = List(<<>>)
    /\ bl_pc' = "done"
    /\ UNCHANGED <<billing_records, valid_records, bl_exc>>

\* lines 211-221: both except clauses raise ValueError
BlHandler ==
    /\ bl_pc = "handler"
    /\ bl_exc' = [kind |-> "ValueError", what |-> bl_exc.kind]
    /\ bl_pc' = "raised"
    /\ UNCHANGED <<billing_records, valid_records, bl_out>>

BlStep == BlCallRaised \/ BlParse \/ BlValidate \/ BlHandler

(***************************************************************************)
(* generate_mock_billing: the cloud provider (lines 23-36)                 *)
(***************************************************************************)
S_amazon == <<"a", "m", "a", "z", "o", "n">>
S_microsoft == <<"m", "i", "c", "r", "o", "s", "o", "f", "t">>
S_google == <<"g", "o", "o", "g", "l", "e">>
S_Azure_label == <<"A", "z", "u", "r", "e">>
S_GCP == <<"G", "C", "P">>

\* line 27: 'aws' in hosting or hosting == 'amazon'
IsAws(h) == Contains(h, S_aws) \/ h = S_amazon

\* lines 27-34 on the lower-cased string
ProviderOfString(h) ==
    IF IsAws(h) THEN S_AWS
    ELSE IF Contains(h, S_azure) \/ Contains(h, S_microsoft)
      THEN S_Azure_label
    ELSE IF Contains(h, S_gcp) \/ Contains(h, S_google) THEN S_GCP
    ELSE S_AWS

\* lines 25-36: "hosting and isinstance(hosting, str)" holds for a string
\* that is not empty
ProviderOf(h) ==
    IF h.t = "str" /\ h.s # <<>> THEN ProviderOfString(Lower(h.s))
    ELSE S_AWS

\* line 24: .get('hosting', 'aws') on a tech_stack without the key
GetHosting(h) == IF h = Absent THEN Str(S_aws) ELSE h

PvIdle == pv_pc = "idle" /\ hosting = Null /\ provider = <<>>

\* the state before line 24, h being tech_stack's hosting entry
PvCall(h) == pv_pc = "start" /\ hosting = h /\ provider = <<>>

\* lines 24-36
DetermineProvider ==
    /\ pv_pc = "start"
    /\ provider' = ProviderOf(GetHosting(hosting))
    /\ pv_pc' = "done"
    /\ UNCHANGED hosting

(***************************************************************************)
(* Inputs of the provider selection                                        *)
(***************************************************************************)
S_Amazon == <<"A", "m", "a", "z", "o", "n">>
S_Microsoft == <<"M", "i", "c", "r", "o", "s", "o", "f", "t">>
S_Google == <<"G", "o", "o", "g", "l", "e">>
S_Heroku == <<"H", "e", "r", "o", "k", "u">>
HostingWords ==
    {S_AWS, S_aws, S_Amazon, S_amazon, S_Azure, S_Microsoft, S_GCP, S_Google,
     S_Heroku}
HostingStrings ==
    {<<>>} \cup HostingWords
    \cup {x \o <<" ">> \o y : x \in HostingWords, y \in HostingWords}
Hostings ==
    {Absent, Null, Num(5), Bool(TRUE), List(<<Str(S_azure)>>),
     Dict([name |-> Str(S_gcp)])}
    \cup {Str(x) : x \in HostingStrings}

(***************************************************************************)
(* Inputs of generate_mock_billing                                         *)
(***************************************************************************)
\* the longest array the model answers with
MaxBatch == 21
\* arrays shorter than this are only the empty one
MinBatch == 11

S_1_200 == <<"1", ",", "2", "0", "0">>
S_minus5 == <<"-", "5">>
S_EC2 == <<"E", "C", "2">>

BaseRecord ==
    [month |-> Str(S_abc), service |-> Str(S_EC2), resource_id |-> Str(S_abc),
     region |-> Str(S_abc), usage_type |-> Str(S_abc),
     usage_quantity |-> Num(720), unit |-> Str(S_abc), cost_inr |-> Num(900),
     desc |-> Str(S_abc)]
Without(d, k) == [x \in (DOMAIN d) \ {k} |-> d[x]]

\* the first records of an array
HeadElements == {Dict(BaseRecord), Dict(Without(BaseRecord, "desc"))}
\* the rest of them
TailElements ==
    HeadElements
    \cup {Dict(Put(BaseRecord, "cost_inr", v)) :
            v \in {Num(0 - 1), Num(0), Str(S_1_200), Str(S_abc),
                   Str(S_minus5), Null}}
    \cup {Dict(Put(BaseRecord, "usage_quantity", v)) :
            v \in {Num(0), Num(0 - 3), Str(S_1_200), Str(S_abc)}}
    \cup {Dict(Put(BaseRecord, "service", List(<<>>))),
          Num(7), Str(S_abc)}

\* k times a, then n - k times b
TwoRuns(a, k, b, n) == [i \in 1..n |-> IF i <= k THEN a ELSE b]

BillingJson ==
    {DecodeError, Dict(BaseRecord), Str(S_abc), Num(5), Null, List(<<>>)}
    \cup {List(TwoRuns(a, k, b, n)) :
            a \in HeadElements, b \in TailElements,
            n \in MinBatch..MaxBatch, k \in 0..MaxBatch}
BillingResponses == {[kind |-> "text", json |-> j] : j \in BillingJson}

(***************************************************************************)
(* analyze_costs_and_recommend                                             *)
(***************************************************************************)
\* cost_analyser.py 197-199
RecFields ==
    <<"title", "service", "current_cost", "potential_savings",
      "recommendation_type", "description", "implementation_effort",
      "risk_level", "steps", "cloud_providers">>

S_recommendations ==
    <<"r", "e", "c", "o", "m", "m", "e", "n", "d", "a", "t", "i", "o", "n",
      "s">>

\* float(v) of a value that is not a number: ValueError on a string that
\* is not a number, TypeError on None, a list or an object
PyFloatValue(v) == IF v.t = "str" THEN PyFloat(v.s) ELSE Raise("TypeError")

\* r.get('potential_savings', 0); r.get raises AttributeError when r is not
\* an object
GetSavings(r) ==
    IF r.t # "dict" THEN Raise("AttributeError")
    ELSE IF Has(r.d, "potential_savings") THEN Ok(r.d.potential_savings)
    ELSE Ok(Num(0))

\* line 182: sum(r.get('potential_savings', 0) for r in recs) from element i
\* on; adding anything but a number to the running sum raises TypeError
RECURSIVE SumSavings(_, _, _)
SumSavings(recs, i, acc) ==
    IF i > Len(recs) THEN Ok(acc)
    ELSE LET g == GetSavings(recs[i])
         IN IF ~g.ok THEN g
            ELSE IF ~IsNumber(g.value) THEN Raise("TypeError")
            ELSE SumSavings(recs, i + 1, acc + NumVal(g.value))

\* a saving of exactly 10% counted as high impact
IsHighImpactInclusive(savings, total) == 10 * savings >= total
\* line 187: potential_savings > total_cost * 0.1
IsHighImpact(savings, total) == 10 * savings > total

\* lines 186-187, once line 182 has summed the same values
HighImpact(recs, total) ==
    Cardinality({i \in 1..Len(recs) :
                    IsHighImpact(NumVal(GetSavings(recs[i]).value), total)})

\* a quotient that is not rounded: n / d
Frac(n, d) == [t |-> "frac", n |-> n, d |-> d]
\* line 183
SavingsPct(total_savings, total) ==
    IF total > 0 THEN Frac(total_savings * 100, total) ELSE Num(0)

\* the services of the records; a service is the key of service_costs
ServiceNames(data) == {data[i].d.service : i \in 1..Len(data)}
\* the position at which the key s enters service_costs
FirstIndex(data, s) ==
    CHOOSE i \in 1..Len(data) :
        /\ data[i].d.service = s
        /\ \A j \in 1..(i - 1) : data[j].d.service # s

\* lines 29-31: service_costs[record['service']] += record['cost_inr']
ServiceCosts(data) ==
    [s \in ServiceNames(data) |->
        SumCost(SelectSeq(data, LAMBDA r : r.d.service = s))]

\* line 34: sorted(service_costs.items(), key=cost, reverse=True) puts a
\* before b when a costs more; the sort is stable, so equal costs keep the
\* order in which the services entered service_costs
RanksBefore(data, sc, a, b) ==
    \/ sc[a] > sc[b]
    \/ sc[a] = sc[b] /\ FirstIndex(data, a) < FirstIndex(data, b)

\* line 35: dict(sorted_services[:3])
HighCostServices(data, sc) ==
    [s \in {x \in DOMAIN sc :
               Cardinality({y \in DOMAIN sc : RanksBefore(data, sc, y, x)})
                 < 3} |-> sc[s]]

\* lines 38-45 from the values of lines 24-35
AnalysisDict(total, bud, sc, hc) ==
    Dict([total_monthly_cost |-> Num(total),
          budget |-> Num(bud),
          budget_variance |-> Num(total - bud),
          is_over_budget |-> Bool(total > bud),
          service_costs |-> Dict([s \in DOMAIN sc |-> Num(sc[s])]),
          high_cost_services |-> Dict([s \in DOMAIN hc |-> Num(hc[s])])])

\* lines 29-45 on service_costs
AnalysisOf(data, total, bud, sc) ==
    AnalysisDict(total, bud, sc, HighCostServices(data, sc))

\* lines 24-45: analysis_summary
AnalysisSummary(data, bud) ==
    AnalysisOf(data, SumCost(data), bud, ServiceCosts(data))

\* the analysis of the model kept when there is one
SetAnalysisIfAbsent(d, analysis) ==
    IF Has(d, "analysis") THEN d ELSE Put(d, "analysis", analysis)
\* line 179: report['analysis'] = analysis_summary
SetAnalysis(d, analysis) == Put(d, "analysis", analysis)

\* lines 189-194
SummaryDict(recs, total, total_savings) ==
    Dict([total_potential_savings |-> Num(total_savings),
          savings_percentage |-> SavingsPct(total_savings, total),
          recommendations_count |-> Num(Len(recs)),
          high_impact_recommendations |-> Num(HighImpact(recs, total))])

\* lines 182-194 on the outcome s of the sum of line 182
Summarized(recs, total, s) ==
    IF ~s.ok THEN s ELSE Ok(SummaryDict(recs, total, s.value))

\* lines 182-194: the summary of the list recs against the total cost
Summarize(recs, total) == Summarized(recs, total, SumSavings(recs, 1, 0))

\* lines 179-194 on the outcome sm of the summary
WithSummary(d, analysis, sm) ==
    IF ~sm.ok THEN sm
    ELSE Ok(Dict(Put(SetAnalysis(d, analysis), "summary", sm.value)))

\* lines 166-194 on the parsed value v: the structure checks, the analysis
\* section and the summary, which is computed over report['recommendations']
\* as the model gave it.  "'recommendations' not in report" raises
\* TypeError on a number, a bool or None; on a list or a string that holds
\* the word, report['recommendations'] raises TypeError
PrepareReport(v, total, analysis) ==
    IF v.t \in {"num", "bool", "null"} THEN Raise("TypeError")
    ELSE IF v.t = "list"
      THEN (IF \E i \in 1..Len(v.items) : v.items[i] = Str(S_recommendations)
              THEN Raise("TypeError") ELSE Raise("ValueError"))
    ELSE IF v.t = "str"
      THEN (IF Contains(v.s, S_recommendations)
              THEN Raise("TypeError") ELSE Raise("ValueError"))
    ELSE IF ~Has(v.d, "recommendations") THEN Raise("ValueError")
    ELSE IF v.d.recommendations.t # "list" THEN Raise("ValueError")
    ELSE WithSummary(v.d, analysis,
                     Summarize(v.d.recommendations.items, total))

\* lines 211-215: a value that is not a number is replaced by float(value)
FloatField(d, field) ==
    IF IsNumber(d[field]) THEN Ok(d)
    ELSE LET f == PyFloatValue(d[field])
         IN IF f.ok THEN Ok(Put(d, field, Num(f.value))) ELSE f

\* lines 218-222
ListField(d, field) ==
    IF d[field].t = "list" THEN d ELSE Put(d, field, List(<<d[field]>>))

\* lines 203-228, one iteration on an object: a recommendation that lacks a
\* field or whose numbers cannot be converted is skipped
ValidateRec(rec) ==
    IF \E k \in 1..Len(RecFields) : ~Has(rec.d, RecFields[k]) THEN Skip
    ELSE LET c == FloatField(rec.d, "current_cost")
         IN IF ~c.ok THEN Skip
            ELSE LET p == FloatField(c.value, "potential_savings")
                 IN IF ~p.ok THEN Skip
                    ELSE Keep(Dict(ListField(ListField(p.value, "steps"),
                                             "cloud_providers")))

\* lines 201-228
RECURSIVE ValidateRecs(_, _, _)
ValidateRecs(recs, i, valid) ==
    IF i > Len(recs) THEN valid
    ELSE LET r == ValidateRec(recs[i])
         IN ValidateRecs(recs, i + 1,
                IF r.res = "keep" THEN Append(valid, r.record) ELSE valid)

\* lines 230-231
FinishReport(rep, valid) ==
    Dict(Put(Put(rep.d, "recommendations", List(valid)),
             "summary",
             Dict(Put(rep.d.summary.d, "recommendations_count",
                      Num(Len(valid))))))

AnIdle ==
    /\ an_pc = "idle" /\ billing_data = <<>> /\ total_cost = 0 /\ budget = 0
    /\ report = Null /\ an_out = NoneVal /\ an_exc = NoErr

\* analyze_costs_and_recommend(profile, billing_data) is called: lines 24-26
AnCall(data, bud) ==
    /\ an_pc = "call" /\ billing_data = data
    /\ total_cost = SumCost(data) /\ budget = bud
    /\ report = Null /\ an_out = NoneVal /\ an_exc = NoErr

\* line 160: call_llm raised, outside the try block: the error propagates
AnCallRaised ==
    /\ an_pc = "call" /\ llm_pc = "raised"
    /\ an_exc' = llm_err
    /\ an_pc' = "raised"
    /\ UNCHANGED <<billing_data, total_cost, budget, report, an_out>>

\* lines 160-194: call_llm returned; parse, check the structure, set the
\* analysis section and the summary
AnPrepare ==
    /\ an_pc = "call" /\ llm_pc = "returned"
    /\ IF Loads(llm_out) = DecodeError
         THEN /\ an_exc' = [kind |-> "JSONDecodeError"]
              /\ an_pc' = "handler"
              /\ UNCHANGED report
         ELSE LET p == PrepareReport(Loads(llm_out), total_cost,
                                     AnalysisSummary(billing_data, budget))
              IN IF p.ok
                   THEN /\ report' = p.value
                        /\ an_pc' = "validate"
                        /\ UNCHANGED an_exc
                   ELSE /\ an_exc' = p.exc
                        /\ an_pc' = "handler"
                        /\ UNCHANGED report
    /\ UNCHANGED <<billing_data, total_cost, budget, an_out>>

\* lines 196-239: validate each recommendation, return the report
AnValidate ==
    /\ an_pc = "validate"
    /\ report' = FinishReport(report,
                     ValidateRecs(report.d.recommendations.items, 1, <<>>))
    /\ an_out' = report'
    /\ an_pc' = "done"
    /\ UNCHANGED <<billing_data, total_cost, budget, an_exc>>

\* lines 241-253: both except clauses raise ValueError
AnHandler ==
    /\ an_pc = "handler"
    /\ an_exc' = [kind |-> "ValueError", what |-> an_exc.kind]
    /\ an_pc' = "raised"
    /\ UNCHANGED <<billing_data, total_cost, budget, report, an_out>>

AnStep == AnCallRaised \/ AnPrepare \/ AnValidate \/ AnHandler

(***************************************************************************)
(* Inputs of analyze_costs_and_recommend                                   *)
(***************************************************************************)
\* the longest recommendations list the model answers with
MaxRecs == 3

S_1200 == <<"1", "2", "0", "0">>
S_50 == <<"5", "0">>

BaseRec ==
    [title |-> Str(S_abc), service |-> Str(S_EC2), current_cost |-> Num(1000),
     potential_savings |-> Num(500), recommendation_type |-> Str(S_abc),
     description |-> Str(S_abc), implementation_effort |-> Str(S_abc),
     risk_level |-> Str(S_abc), steps |-> List(<<Str(S_abc)>>),
     cloud_providers |-> List(<<Str(S_AWS)>>)]

RecElements ==
    {Dict(BaseRec),
     Dict(Put(BaseRec, "potential_savings", Num(300))),
     Dict(Put(BaseRec, "potential_savings", Num(1200))),
     Dict(Put(BaseRec, "potential_savings", Num(0 - 50))),
     Dict(Put(BaseRec, "potential_savings", Str(S_50))),
     Dict(Without(BaseRec, "title")),
     Dict(Without(BaseRec, "potential_savings")),
     Dict(Put(BaseRec, "current_cost", Str(S_1_200))),
     Dict(Put(Put(BaseRec, "current_cost", Str(S_1200)), "steps", Str(S_abc))),
     Str(S_abc)}

\* the summary and the analysis the model proposes
ModelSummary ==
    Dict([total_potential_savings |-> Num(99999),
          savings_percentage |-> Num(99),
          recommendations_count |-> Num(0),
          high_impact_recommendations |-> Num(42)])
ModelAnalysis == Dict([total_monthly_cost |-> Num(1)])

ReportJson ==
    {DecodeError, List(<<>>), Str(S_abc), Num(5), Null, Dict(<<>>),
     Dict([recommendations |-> List(<<Dict(BaseRec)>>)]),
     List(<<Str(S_recommendations)>>), Str(S_recommendations),
     Dict([recommendations |-> Str(S_abc)]),
     Dict([recommendations |-> Dict(BaseRec)])}
    \cup {MakeDict([recommendations |-> List(recs), summary |-> s,
                    analysis |-> s2]) :
            recs \in SeqsUpTo(RecElements, MaxRecs),
            s \in {ModelSummary}, s2 \in {ModelAnalysis}}
ReportResponses == {[kind |-> "text", json |-> j] : j \in ReportJson}

\* the billing records passed in: 12 records that cost 0, 3000 and 5000,
\* and 12 records of five services that cost 28000, three of the services
\* at the same cost
BillingCost(c) == Dict(Put(BaseRecord, "cost_inr", Num(c)))
S_S3 == <<"S", "3">>
S_RDS == <<"R", "D", "S">>
S_CDN == <<"C", "D", "N">>
S_SQS == <<"S", "Q", "S">>
MixedServices == <<S_EC2, S_S3, S_RDS, S_CDN, S_SQS>>
MixedCosts == <<2000, 3000, 3000, 500, 3000>>
MixedBill ==
    [i \in 1..12 |->
        Dict(Put(Put(BaseRecord, "service",
                     Str(MixedServices[((i - 1) % 5) + 1])),
                 "cost_inr", Num(MixedCosts[((i - 1) % 5) + 1])))]
BillingData ==
    {TwoRuns(BillingCost(0), 12, BillingCost(0), 12),
     TwoRuns(BillingCost(250), 12, BillingCost(250), 12),
     TwoRuns(BillingCost(400), 11, BillingCost(600), 12),
     MixedBill}
Budgets == {5000}

(***************************************************************************)
(* CloudCostOptimizer.run_complete_analysis (main.py 67-157)               *)
(***************************************************************************)
RnIdle ==
    /\ rn_pc = "idle" /\ run = 0 /\ desc_exists = FALSE
    /\ profile_file = 0 /\ billing_file = 0 /\ report_file = 0
    /\ stages = <<>> /\ rn_result = "none"

\* the optimizer before its first run: no output file written yet
RnCall(exists) ==
    /\ rn_pc = "menu" /\ run = 0 /\ desc_exists = exists
    /\ profile_file = 0 /\ billing_file = 0 /\ report_file = 0
    /\ stages = <<>> /\ rn_result = "none"

\* lines 67-77: without a description file the run returns at once
RnStart ==
    /\ rn_pc = "menu" /\ run < MaxRuns
    /\ run' = run + 1
    /\ stages' = <<>>
    /\ IF desc_exists
         THEN rn_pc' = "step1" /\ rn_result' = "running"
         ELSE rn_pc' = "menu" /\ rn_result' = "no description"
    /\ UNCHANGED <<desc_exists, profile_file, billing_file, report_file>>

\* a stage called at position pc: it returns, and the run goes on to save
\* its output, or it raises, and the run goes to "except Exception"
RnStage(pc, name, save) ==
    /\ rn_pc = pc
    /\ \E returns \in BOOLEAN :
         IF returns
           THEN rn_pc' = save /\ stages' = Append(stages, name)
           ELSE rn_pc' = "except" /\ stages' = Append(stages, "raised")
    /\ UNCHANGED <<run, desc_exists, profile_file, billing_file, report_file,
                   rn_result>>

\* lines 84-88: read the description, extract_project_profile(description)
RnExtract == RnStage("step1", "extract", "save1")

\* lines 90-95: json.dump(profile, f) into self.profile_file
RnSaveProfile ==
    /\ rn_pc = "save1"
    /\ profile_file' = run
    /\ stages' = Append(stages, "write profile")
    /\ rn_pc' = "step2"
    /\ UNCHANGED <<run, desc_exists, billing_file, report_file, rn_result>>

\* a failure of generate_mock_billing answered with an empty bill
RnGenerateNeverFails ==
    /\ rn_pc = "step2"
    /\ \E returns \in BOOLEAN :
         stages' = Append(stages, IF returns THEN "generate" ELSE "raised")
    /\ rn_pc' = "save2"
    /\ UNCHANGED <<run, desc_exists, profile_file, billing_file, report_file,
                   rn_result>>
\* line 102: generate_mock_billing(profile)
RnGenerate == RnStage("step2", "generate", "save2")

\* lines 104-111: json.dump(billing_data, f) into self.billing_file
RnSaveBilling ==
    /\ rn_pc = "save2"
    /\ billing_file' = run
    /\ stages' = Append(stages, "write billing")
    /\ rn_pc' = "step3"
    /\ UNCHANGED <<run, desc_exists, profile_file, report_file, rn_result>>

\* line 118: analyze_costs_and_recommend(profile, billing_data)
RnAnalyze == RnStage("step3", "analyze", "save3")

\* lines 120-147: json.dump(report, f) into self.report_file, then the
\* summary is printed
RnSaveReport ==
    /\ rn_pc = "save3"
    /\ report_file' = run
    /\ stages' = Append(stages, "write report")
    /\ rn_pc' = "menu"
    /\ rn_result' = "finished"
    /\ UNCHANGED <<run, desc_exists, profile_file, billing_file>>

\* lines 149-155: except Exception prints the error; the run is over
RnExcept ==
    /\ rn_pc = "except"
    /\ rn_pc' = "menu"
    /\ rn_result' = "failed"
    /\ UNCHANGED <<run, desc_exists, profile_file, billing_file, report_file,
                   stages>>

RnStep ==
    \/ RnStart
    \/ RnExtract
    \/ RnSaveProfile
    \/ RnGenerate
    \/ RnSaveBilling
    \/ RnAnalyze
    \/ RnSaveReport
    \/ RnExcept

(***************************************************************************)
(* Specifications                                                          *)
(***************************************************************************)
InitLLM ==
    /\ \E key \in BOOLEAN, r \in MinRetries..MaxRetries : LLMCall(key, r)
    /\ ExIdle /\ PfIdle /\ BlIdle /\ AnIdle /\ PvIdle /\ RnIdle

\* call_llm called on its own, not by one of the pipelines
Standalone == pf_pc = "idle" /\ bl_pc = "idle" /\ an_pc = "idle"

NextLLM ==
    /\ Standalone
    /\ LLMStep(LLMTexts)
    /\ UNCHANGED <<exVars, pfVars, blVars, anVars, pvVars, rnVars>>

SpecLLM == InitLLM /\ [][NextLLM]_vars

InitExtract ==
    /\ LLMIdle /\ PfIdle /\ BlIdle /\ AnIdle /\ PvIdle /\ RnIdle
    /\ ex_pc = "start"
    /\ ex_out = <<>>
    /\ \/ text = ExampleText
       \/ \E s \in SeqsUpTo(Alphabet, MaxLen) :
            \E i \in 0..Len(s) : \E j \in i..Len(s) :
              \E o \in Opens, c \in Closes :
                text = Slice(s, 0, i) \o o \o Slice(s, i, j) \o c
                       \o Slice(s, j, Len(s))

NextExtract ==
    Extract /\ UNCHANGED <<llmVars, pfVars, blVars, anVars, pvVars, rnVars>>

SpecExtract == InitExtract /\ [][NextExtract]_vars

\* extract_project_profile(desc), which calls call_llm(prompt, max_tokens=1500)
InitProfile ==
    /\ \E key \in BOOLEAN : LLMCall(key, DefaultRetries)
    /\ \E desc \in Descriptions : PfCall(desc)
    /\ ExIdle /\ BlIdle /\ AnIdle /\ PvIdle /\ RnIdle

NextProfile ==
    \/ /\ pf_pc = "call"
       /\ LLMStep(ResponsesFor(description))
       /\ UNCHANGED <<exVars, pfVars, blVars, anVars, pvVars, rnVars>>
    \/ PfStep /\ UNCHANGED <<llmVars, exVars, blVars, anVars, pvVars, rnVars>>

SpecProfile == InitProfile /\ [][NextProfile]_vars

\* generate_mock_billing(profile), which calls call_llm(prompt, max_tokens=3500)
InitBilling ==
    /\ \E key \in BOOLEAN : LLMCall(key, DefaultRetries)
    /\ BlCall
    /\ ExIdle /\ PfIdle /\ AnIdle /\ PvIdle /\ RnIdle

NextBilling ==
    \/ /\ bl_pc = "call"
       /\ LLMStep(BillingResponses)
       /\ UNCHANGED <<exVars, pfVars, blVars, anVars, pvVars, rnVars>>
    \/ BlStep /\ UNCHANGED <<llmVars, exVars, pfVars, anVars, pvVars, rnVars>>

SpecBilling == InitBilling /\ [][NextBilling]_vars

\* analyze_costs_and_recommend(profile, billing_data), which calls
\* call_llm(prompt, max_tokens=4500)
InitAnalysis ==
    /\ \E key \in BOOLEAN : LLMCall(key, DefaultRetries)
    /\ \E b \in BillingData, bud \in Budgets : AnCall(b, bud)
    /\ ExIdle /\ PfIdle /\ BlIdle /\ PvIdle /\ RnIdle

NextAnalysis ==
    \/ /\ an_pc = "call"
       /\ LLMStep(ReportResponses)
       /\ UNCHANGED <<exVars, pfVars, blVars, anVars, pvVars, rnVars>>
    \/ AnStep /\ UNCHANGED <<llmVars, exVars, pfVars, blVars, pvVars, rnVars>>

SpecAnalysis == InitAnalysis /\ [][NextAnalysis]_vars

\* lines 23-36 of generate_mock_billing on their own
InitProvider ==
    /\ \E h \in Hostings : PvCall(h)
    /\ LLMIdle /\ ExIdle /\ PfIdle /\ BlIdle /\ AnIdle /\ RnIdle

NextProvider ==
    DetermineProvider
    /\ UNCHANGED <<llmVars, exVars, pfVars, blVars, anVars, rnVars>>

SpecProvider == InitProvider /\ [][NextProvider]_vars

\* run_complete_analysis, chosen from the menu time after time; the three
\* stages are taken by their outcome, a value returned or an exception
InitRun ==
    /\ \E e \in BOOLEAN : RnCall(e)
    /\ LLMIdle /\ ExIdle /\ PfIdle /\ BlIdle /\ AnIdle /\ PvIdle

NextRun ==
    RnStep /\ UNCHANGED <<llmVars, exVars, pfVars, blVars, anVars, pvVars>>

SpecRun == InitRun /\ [][NextRun]_vars

Init ==
    \/ InitLLM \/ InitExtract \/ InitProfile \/ InitBilling \/ InitAnalysis
    \/ InitProvider \/ InitRun
Next ==
    \/ NextLLM \/ NextExtract \/ NextProfile \/ NextBilling \/ NextAnalysis
    \/ NextProvider \/ NextRun
Spec == Init /\ [][Next]_vars

(***************************************************************************)
(* Claims about call_llm (SpecLLM)                                         *)
(***************************************************************************)
Max(a, b) == IF a >= b THEN a ELSE b
LLMDone == llm_pc \in {"returned", "raised"}
AllFailed == \A k \in 1..Len(trace) : trace[k] # "ok"

\* C8 as stated: a call that gives up on a backend that fails every time has
\* issued the initial request plus r retries, r + 1 requests in all, and
\* raises the error of the last of them.
C8_Original ==
    (llm_pc = "raised" /\ llm_err.kind = "BackendError")
        => (requests = retries + 1 /\ llm_err = BackendError(retries + 1))

\* C8 amended: retries is the total number of attempts.  No call issues more
\* than max(r, 0) requests; with r >= 1 and a backend that fails on every
\* attempt the call ends only by raising, after exactly r requests (the
\* initial one and r - 1 retries), the error of the r-th request.
C8_RetriesIsAttempts ==
    /\ requests <= Max(retries, 0)
    /\ (LLMDone /\ api_key /\ retries >= 1 /\ AllFailed)
         => (/\ llm_pc = "raised"
             /\ requests = retries
             /\ llm_err = BackendError(retries))

C8_Witness ==
    llm_pc = "raised" /\ retries = 3 /\ requests = 3 /\ AllFailed
    /\ llm_err = BackendError(3)

\* C9: without a credential call_llm raises the configuration error and
\* issues no request and takes no pause, whatever retries is.
C9_NoCredentialNoRequest ==
    ~api_key =>
        /\ requests = 0 /\ sleeps = 0 /\ trace = <<>>
        /\ llm_pc \in {"idle", "start", "raised"}
        /\ llm_pc = "raised" => llm_err = ConfigError

C9_Witness ==
    ~api_key /\ llm_pc = "raised" /\ llm_err = ConfigError /\ retries = 2

(***************************************************************************)
(* Claims about extract_json_from_text (SpecExtract)                       *)
(***************************************************************************)
Opener(c) == IF c = "]" THEN "[" ELSE "{"

\* s from position i on closes the brackets on the stack, in order, the
\* outermost one with the last character of s
RECURSIVE Balanced(_, _, _)
Balanced(s, i, stack) ==
    IF i > Len(s) THEN stack = <<>>
    ELSE IF s[i] \in {"[", "{"}
      THEN (i = 1 \/ stack # <<>>) /\ Balanced(s, i + 1, <<s[i]>> \o stack)
    ELSE IF s[i] \in {"]", "}"}
      THEN /\ stack # <<>>
           /\ Head(stack) = Opener(s[i])
           /\ (Len(stack) = 1 => i = Len(s))
           /\ Balanced(s, i + 1, Tail(stack))
    ELSE stack # <<>> /\ Balanced(s, i + 1, stack)

\* one JSON object or array: properly nested brackets around any content
WellFormedJson(s) == s # <<>> /\ Balanced(s, 1, <<>>)

\* the trimmed interior of the first ```json block of t, <<>> if none
JsonFenceInterior(t) ==
    LET i == Find(t, FenceJson, 0)
        j == Find(t, Fence, i + 7)
    IN IF i = 0 - 1 \/ j = 0 - 1 THEN <<>> ELSE Strip(Slice(t, i + 7, j))

\* C4: when the text holds a ```json block whose interior is a well-formed
\* object or array, the result is that interior, trimmed, whatever prose
\* surrounds the block; the example text yields {"name":"X"}.
C4_FencedJsonInterior ==
    ex_pc = "done" =>
        /\ WellFormedJson(JsonFenceInterior(text))
             => ex_out = JsonFenceInterior(text)
        /\ text = ExampleText => ex_out = ExampleJson

C4_Witness ==
    /\ ex_pc = "done"
    /\ text # ExampleText
    /\ Find(text, FenceJson, 0) > 0
    /\ Find(text, Fence, Find(text, FenceJson, 0) + 7) + 3 < Len(text)
    /\ WellFormedJson(JsonFenceInterior(text))
    /\ ex_out = JsonFenceInterior(text)

\* the first "[" of t comes before its first "{", or t has a "[" and no "{"
ArrayPrecedes(t) ==
    /\ Find(t, <<"[">>, 0) # 0 - 1
    /\ \/ Find(t, <<"{">>, 0) = 0 - 1
       \/ Find(t, <<"[">>, 0) < Find(t, <<"{">>, 0)

\* t from its first "[" to its last "]"
ArraySpan(t) == Slice(t, Find(t, <<"[">>, 0), RFind(t, <<"]">>) + 1)
ObjectSpan(t) == Slice(t, Find(t, <<"{">>, 0), RFind(t, <<"}">>) + 1)

\* C5 as stated: whenever the first "[" of the input precedes its first "{"
\* (or there is no "{"), the result is the input from its first "[" to its
\* last "]" (when a "]" follows that "["), and never the span from the first
\* "{" to the last "}" (when there is one).
C5_Original ==
    (ex_pc = "done" /\ ArrayPrecedes(text))
        => /\ RFind(text, <<"]">>) > Find(text, <<"[">>, 0)
                => ex_out = ArraySpan(text)
           /\ (Find(text, <<"{">>, 0) # 0 - 1
                /\ RFind(text, <<"}">>) > Find(text, <<"{">>, 0))
                => ex_out # ObjectSpan(text)

\* C5 amended: the preference is taken on the text that remains after the
\* fence removal, and only when a "]" follows its first "[": then the result
\* is that text from its first "[" to its last "]".
C5_ArraySpanWhenClosed ==
    ex_pc = "done" =>
        LET t == StripFence(text)
        IN (ArrayPrecedes(t) /\ RFind(t, <<"]">>) > Find(t, <<"[">>, 0))
             => ex_out = ArraySpan(t)

C5_Witness ==
    /\ ex_pc = "done"
    /\ ArrayPrecedes(text)
    /\ Find(text, <<"[">>, 0) > 0
    /\ Find(text, <<"{">>, 0) > 0
    /\ RFind(text, <<"}">>) > RFind(text, <<"]">>)
    /\ RFind(text, <<"]">>) > Find(text, <<"[">>, 0)
    /\ ex_out = ArraySpan(text)

(***************************************************************************)
(* Claims about extract_project_profile (SpecProfile)                      *)
(***************************************************************************)
\* v can be converted to a number: a number, or a string that holds, apart
\* from commas and surrounding whitespace, an optional sign and digits
ConvertibleBudget(v) ==
    \/ v.t = "num"
    \/ /\ v.t = "str"
       /\ LET u == Strip(SelectSeq(v.s, LAMBDA c : c # ","))
              body == IF u # <<>> /\ u[1] \in {"+", "-"} THEN Tail(u) ELSE u
          IN body # <<>> /\ \A i \in 1..Len(body) : IsDigit(body[i])

\* the parsed model output j cannot be used: not parseable, not an object,
\* or an object whose budget is not convertible
Unusable(j) ==
    \/ j = DecodeError
    \/ j.t # "dict"
    \/ /\ Has(j.d, "budget_inr_per_month")
       /\ ~ConvertibleBudget(j.d.budget_inr_per_month)

\* C6: extract_project_profile never raises, and on unusable model output
\* (unparseable, not an object, budget not convertible) the call that has
\* ended has returned the fallback profile of the raw description.
C6_FallbackOnUnusableOutput ==
    /\ pf_pc \in {"call", "validate", "handler", "done"}
    /\ (pf_pc = "done" /\ llm_pc = "returned" /\ Unusable(Loads(llm_out)))
         => (/\ pf_branch = "fallback"
             /\ pf_out = create_fallback_profile(description))

C6_Witness ==
    /\ pf_pc = "done" /\ llm_pc = "returned"
    /\ Loads(llm_out).t = "list"
    /\ pf_branch = "fallback"
    /\ description = S_ExampleDescription

\* C7: every returned profile has a tech_stack object with the five keys
\* frontend, backend, database, proxy and hosting.
C7_FiveTechStackKeys ==
    pf_pc = "done" =>
        /\ pf_out.t = "dict"
        /\ Has(pf_out.d, "tech_stack")
        /\ pf_out.d.tech_stack.t = "dict"
        /\ FiveKeys \subseteq DOMAIN pf_out.d.tech_stack.d

C1_ReturnedRecordsInRange ==
    bl_pc = "done" =>
        \A i \in 1..Len(bl_out.items) :
            LET r == bl_out.items[i]
            IN /\ r.t = "dict"
               /\ \A k \in 1..Len(RequiredFields) : Has(r.d, RequiredFields[k])
               /\ IsNumber(r.d.cost_inr) /\ NumVal(r.d.cost_inr) >= 0
               /\ IsNumber(r.d.usage_quantity)
               /\ NumVal(r.d.usage_quantity) > 0

\* the number of records of the array v, among its first 20, that the
\* per-record validation keeps
Survivors(v) ==
    Cardinality({i \in 1..Len(v.items) :
                    /\ i <= TrimRecords
                    /\ ValidateRecord(v.items[i]).res = "keep"})

BlEnded == bl_pc \in {"done", "raised"}

\* C2: generate_mock_billing returns only a list of at least 12 surviving
\* records, all of the survivors; whenever fewer than 12 records of the
\* parsed array survive, the call ends by raising ValueError and has
\* returned nothing.
C2_FewerThanTwelveRaises ==
    /\ bl_pc = "done"
         => (/\ Len(valid_records) >= 12
             /\ bl_out = List(valid_records)
             /\ Survivors(Loads(llm_out)) = Len(valid_records))
    /\ bl_pc # "done" => bl_out = NoneVal
    /\ (BlEnded /\ llm_pc = "returned" /\ Loads(llm_out).t = "list"
           /\ Survivors(Loads(llm_out)) < 12)
         => (bl_pc = "raised" /\ bl_exc.kind = "ValueError")

\* 10 valid records and 5 that lack a field
C2_Witness ==
    /\ bl_pc = "raised" /\ bl_exc.kind = "ValueError" /\ bl_out = NoneVal
    /\ Len(billing_records) = 15
    /\ Len(valid_records) = 10
    /\ \A i \in 11..15 : billing_records[i] = Dict(Without(BaseRecord, "desc"))

(***************************************************************************)
(* Claims about analyze_costs_and_recommend (SpecAnalysis)                 *)
(***************************************************************************)
RECURSIVE SumOfSavings(_)
SumOfSavings(recs) ==
    IF recs = <<>> THEN 0
    ELSE NumVal(Head(recs).d.potential_savings) + SumOfSavings(Tail(recs))

\* C3: in every returned report, total_potential_savings is the sum of
\* potential_savings over the recommendations of the report (those that
\* survived validation) and high_impact_recommendations is the number of
\* them whose potential_savings exceeds 10% of the total cost.
C3_SummaryOverSurvivors ==
    an_pc = "done" =>
        LET recs == an_out.d.recommendations.items
            summary == an_out.d.summary.d
        IN /\ summary.total_potential_savings = Num(SumOfSavings(recs))
           /\ summary.high_impact_recommendations =
                Num(Cardinality({i \in 1..Len(recs) :
                      10 * NumVal(recs[i].d.potential_savings) > total_cost}))

(***************************************************************************)
(* Claims about both pipelines without a fallback (Spec)                   *)
(***************************************************************************)
AnEnded == an_pc \in {"done", "raised"}

\* the parsed value is not a report: not parseable, not an object, or an
\* object without a 'recommendations' list
WrongShapeReport(j) ==
    \/ j = DecodeError
    \/ j.t # "dict"
    \/ ~Has(j.d, "recommendations")
    \/ j.d.recommendations.t # "list"

\* C11: when the extracted text is not parseable JSON or parses to the wrong
\* shape (not an array for billing, no 'recommendations' list for analysis),
\* generate_mock_billing and analyze_costs_and_recommend end by raising a
\* ValueError that names the failure, and return nothing.
C11_NoFallbackBranch ==
    /\ (BlEnded /\ llm_pc = "returned"
           /\ (Loads(llm_out) = DecodeError \/ Loads(llm_out).t # "list"))
         => (/\ bl_pc = "raised"
             /\ bl_exc.kind = "ValueError"
             /\ bl_exc.what \in {"JSONDecodeError", "ValueError"}
             /\ bl_out = NoneVal)
    /\ (AnEnded /\ llm_pc = "returned" /\ WrongShapeReport(Loads(llm_out)))
         => (/\ an_pc = "raised"
             /\ an_exc.kind = "ValueError"
             /\ an_exc.what \in {"JSONDecodeError", "ValueError", "TypeError"}
             /\ an_out = NoneVal)

C11_Witness ==
    /\ bl_pc = "raised" /\ llm_pc = "returned"
    /\ Loads(llm_out).t = "dict"
    /\ bl_exc = [kind |-> "ValueError", what |-> "ValueError"]

(***************************************************************************)
(* Claims about the summary of a report (SpecAnalysis)                     *)
(***************************************************************************)
\* C12: recomputing the summary from the recommendation list of a returned
\* report, against the same total cost, gives the summary stored in the
\* report: the same total_potential_savings, savings_percentage,
\* recommendations_count and high_impact_recommendations.
C12_SummaryIdempotent ==
    an_pc = "done" =>
        Summarize(an_out.d.recommendations.items, total_cost)
            = Ok(an_out.d.summary)

\* every element of recs is an object with the ten fields and numbers for
\* current_cost and potential_savings
ValidRecommendations(recs) ==
    \A i \in 1..Len(recs) :
        /\ recs[i].t = "dict"
        /\ \A k \in 1..Len(RecFields) : Has(recs[i].d, RecFields[k])
        /\ recs[i].d.current_cost.t = "num"
        /\ recs[i].d.potential_savings.t = "num"

\* the potential_savings of recs, in order
Savings(recs) == [i \in 1..Len(recs) |-> recs[i].d.potential_savings.v]

ArrayWellFormed(t) ==
    Find(t, <<"[">>, 0) # 0 - 1 /\ RFind(t, <<"]">>) > Find(t, <<"[">>, 0)
\* t has a "}" after its first "{"
ObjectWellFormed(t) ==
    Find(t, <<"{">>, 0) # 0 - 1 /\ RFind(t, <<"}">>) > Find(t, <<"{">>, 0)

\* C14: on the text that remains after fence removal, when neither the
\* array span nor the object span is well-formed the result is that whole
\* text, trimmed; when the preferred array span is malformed and the object
\* span is well-formed the result is the object span.
C14_FallbackSpans ==
    ex_pc = "done" =>
        LET t == StripFence(text)
        IN /\ (~ArrayWellFormed(t) /\ ~ObjectWellFormed(t))
                => ex_out = Strip(t)
           /\ (ArrayPrecedes(t) /\ ~ArrayWellFormed(t) /\ ObjectWellFormed(t))
                => ex_out = ObjectSpan(t)

C14_Witness ==
    /\ ex_pc = "done"
    /\ ArrayPrecedes(StripFence(text))
    /\ ~ArrayWellFormed(StripFence(text))
    /\ ObjectWellFormed(StripFence(text))
    /\ ex_out = ObjectSpan(StripFence(text))
    /\ ex_out # Strip(StripFence(text))

(***************************************************************************)
(* More claims about extract_project_profile (SpecProfile)                 *)
(***************************************************************************)
\* C15: every returned profile has a budget_inr_per_month that is a number
\* strictly greater than 0.
C15_PositiveBudget ==
    pf_pc = "done" =>
        /\ Has(pf_out.d, "budget_inr_per_month")
        /\ pf_out.d.budget_inr_per_month.t = "num"
        /\ pf_out.d.budget_inr_per_month.v > 0

(***************************************************************************)
(* Claims about the treatment of single elements (Spec)                    *)
(***************************************************************************)
\* v is a number or a string that denotes one
ConvertibleNumber(v) == v.t = "num" \/ ConvertibleBudget(v)

\* e is a billing record that validation has no reason to drop: an object
\* with the nine fields, a cost that is or denotes a number >= 0 and a
\* usage_quantity that is or denotes a number
WellFormedRecord(e) ==
    /\ e.t = "dict"
    /\ \A k \in 1..Len(RequiredFields) : Has(e.d, RequiredFields[k])
    /\ ConvertibleNumber(e.d.cost_inr)
    /\ CoerceNumber(e.d.cost_inr).value >= 0
    /\ ConvertibleNumber(e.d.usage_quantity)
    /\ e.d.service.t = "str"

WellFormedCount(v) ==
    Cardinality({i \in 1..Len(v.items) :
                    i <= TrimRecords /\ WellFormedRecord(v.items[i])})

\* C16: a malformed element of the model's list is dropped on its own; the
\* batch fails only when fewer elements than the minimum survive: a parsed
\* billing array fails only when fewer than 12 of its (first 20) elements
\* are well-formed records, and a parsed report with a 'recommendations'
\* list never fails.
C16_ElementsDroppedAlone ==
    /\ (bl_pc = "raised" /\ llm_pc = "returned"
           /\ Loads(llm_out) # DecodeError /\ Loads(llm_out).t = "list")
         => WellFormedCount(Loads(llm_out)) < 12
    /\ (an_pc = "raised" /\ llm_pc = "returned")
         => WrongShapeReport(Loads(llm_out))

\* C17: a numeric field given as a string with thousands separators is
\* coerced to the number it denotes and its record survives: a well-formed
\* billing record with cost_inr or usage_quantity "1,200" is returned with
\* 1200, and a recommendation with the ten fields and current_cost "1,200"
\* is returned with 1200.
C17_SeparatorStringsCoerced ==
    /\ bl_pc = "done" =>
          \A i \in 1..Len(Loads(llm_out).items) :
            LET e == Loads(llm_out).items[i]
            IN (i <= TrimRecords /\ WellFormedRecord(e))
                 => /\ e.d.cost_inr = Str(S_1_200)
                         => \E j \in 1..Len(bl_out.items) :
                              bl_out.items[j]
                                = Dict(Put(e.d, "cost_inr", Num(1200)))
                    /\ e.d.usage_quantity = Str(S_1_200)
                         => \E j \in 1..Len(bl_out.items) :
                              bl_out.items[j]
                                = Dict(Put(e.d, "usage_quantity", Num(1200)))
    /\ an_pc = "done" =>
          \A i \in 1..Len(Loads(llm_out).d.recommendations.items) :
            LET e == Loads(llm_out).d.recommendations.items[i]
            IN (/\ e.t = "dict"
                /\ \A k \in 1..Len(RecFields) : Has(e.d, RecFields[k])
                /\ e.d.current_cost = Str(S_1_200))
                 => \E j \in 1..Len(an_out.d.recommendations.items) :
                      an_out.d.recommendations.items[j].d.current_cost
                        = Num(1200)

(***************************************************************************)
(* More claims about analyze_costs_and_recommend (SpecAnalysis)            *)
(***************************************************************************)
\* C18: every recommendation of a returned report has
\* potential_savings >= 0.
C18_NoNegativeSavings ==
    an_pc = "done" =>
        \A i \in 1..Len(an_out.d.recommendations.items) :
            NumVal(an_out.d.recommendations.items[i].d.potential_savings) >= 0

\* the sum of cost_inr over the records of data whose service is s
RECURSIVE CostOfService(_, _)
CostOfService(data, s) ==
    IF data = <<>> THEN 0
    ELSE (IF Head(data).d.service = s THEN Head(data).d.cost_inr.v ELSE 0)
         + CostOfService(Tail(data), s)

RECURSIVE TotalOf(_)
TotalOf(data) ==
    IF data = <<>> THEN 0
    ELSE Head(data).d.cost_inr.v + TotalOf(Tail(data))

Min(a, b) == IF a <= b THEN a ELSE b

\* C19: the analysis section of every returned report is the one computed
\* from the billing records passed in, whatever analysis the model
\* returned: total_monthly_cost is the sum of cost_inr, budget_variance is
\* total_monthly_cost - budget, is_over_budget holds exactly when the total
\* exceeds the budget, service_costs is the sum per service and
\* high_cost_services holds the (at most) three services of highest cost.
C19_AnalysisComputedLocally ==
    an_pc = "done" =>
        LET a == an_out.d.analysis.d
            sc == a.service_costs.d
            hc == a.high_cost_services.d
        IN /\ a.total_monthly_cost = Num(TotalOf(billing_data))
           /\ a.budget = Num(budget)
           /\ a.budget_variance = Num(TotalOf(billing_data) - budget)
           /\ a.is_over_budget = Bool(TotalOf(billing_data) > budget)
           /\ DOMAIN sc = {billing_data[i].d.service :
                             i \in 1..Len(billing_data)}
           /\ \A s \in DOMAIN sc :
                 sc[s] = Num(CostOfService(billing_data, s))
           /\ DOMAIN hc \subseteq DOMAIN sc
           /\ Cardinality(DOMAIN hc) = Min(3, Cardinality(DOMAIN sc))
           /\ \A s \in DOMAIN hc :
                 /\ hc[s] = sc[s]
                 /\ \A x \in (DOMAIN sc) \ (DOMAIN hc) : sc[s].v >= sc[x].v

C19_Witness ==
    /\ an_pc = "done"
    /\ billing_data = MixedBill
    /\ Has(Loads(llm_out).d, "analysis")
    /\ an_out.d.analysis.d.total_monthly_cost = Num(28000)
    /\ an_out.d.analysis.d.is_over_budget = Bool(TRUE)
    /\ DOMAIN an_out.d.analysis.d.high_cost_services.d
         = {Str(S_S3), Str(S_EC2), Str(S_RDS)}

\* C20: a list returned by generate_mock_billing holds between 12 and 20
\* records inclusive, for every model response, those with more than 20
\* array elements included.
C20_TwelveToTwentyRecords ==
    bl_pc = "done" =>
        /\ bl_out.t = "list"
        /\ Len(bl_out.items) >= 12
        /\ Len(bl_out.items) <= 20

C20_Witness ==
    /\ bl_pc = "done"
    /\ Loads(llm_out).t = "list"
    /\ Len(Loads(llm_out).items) > 20
    /\ Len(bl_out.items) = 20

(***************************************************************************)
(* Further claims about call_llm (SpecLLM)                                 *)
(***************************************************************************)
\* C24: within one call a pause occurs exactly between two consecutive
\* backend attempts: every pause directly follows a failed attempt and is
\* directly followed by the next attempt, every failed attempt that is not
\* the last event of the call is followed by a pause, no pause follows a
\* successful attempt or the final failed attempt, and a successful attempt
\* is the last event of the call, which returns that attempt's text.
C24_PauseBetweenAttempts ==
    /\ \A k \in 1..Len(trace) :
          /\ trace[k] = "sleep" =>
                /\ k > 1 /\ trace[k - 1] = "fail"
                /\ k < Len(trace) => trace[k + 1] \in {"ok", "fail"}
          /\ (trace[k] = "fail" /\ k < Len(trace)) => trace[k + 1] = "sleep"
          /\ trace[k] = "ok" =>
                /\ k = Len(trace)
                /\ llm_pc = "returned"
                /\ llm_out.kind = "text"
    /\ (llm_pc \in {"returned", "raised"} /\ trace # <<>>) =>
          /\ trace[Len(trace)] # "sleep"
          /\ sleeps = requests - 1
    /\ sleeps = Cardinality({k \in 1..Len(trace) : trace[k] = "sleep"})
    /\ requests = Cardinality({k \in 1..Len(trace) : trace[k] # "sleep"})

C24_Witness ==
    /\ llm_pc = "returned"
    /\ trace = <<"fail", "sleep", "fail", "sleep", "ok">>
    /\ sleeps = 2 /\ requests = 3
    /\ llm_out \in LLMTexts

\* C26: with a credential, a call that returns has issued a request that
\* succeeded and returns its text, whatever retries is.
C26_ReturnsOnlyAfterSuccess ==
    (api_key /\ llm_pc = "returned") =>
        /\ requests >= 1
        /\ trace[Len(trace)] = "ok"
        /\ llm_out \in LLMTexts

(***************************************************************************)
(* Claims about create_fallback_profile (SpecProfile)                      *)
(***************************************************************************)
\* per slot, in order of priority: the keywords and the value they give
SlotKeywords ==
    [frontend |-> << <<{S_react}, S_react>>, <<{S_angular}, S_angular>>,
                     <<{S_vue}, S_vue>> >>,
     backend |-> << <<{S_node}, S_nodejs>>, <<{S_python, S_django}, S_python>>,
                    <<{S_java}, S_java>> >>,
     database |-> << <<{S_mongo}, S_mongodb>>, <<{S_postgres}, S_postgresql>>,
                     <<{S_mysql}, S_mysql>> >>,
     proxy |-> << <<{S_nginx}, S_nginx>>, <<{S_apache}, S_apache>> >>,
     hosting |-> << <<{S_aws}, S_aws>>, <<{S_azure}, S_azure>>,
                    <<{S_gcp, S_google_cloud}, S_gcp>> >>]

\* the entries of a slot's table with a keyword that occurs in d
Occurring(d, table) ==
    {i \in 1..Len(table) : \E k \in table[i][1] : Contains(d, k)}
FirstOccurring(table, hit) ==
    IF hit = {} THEN Null
    ELSE Str(table[CHOOSE i \in hit : \A j \in hit : i <= j][2])
SlotValue(d, slot) ==
    FirstOccurring(SlotKeywords[slot], Occurring(d, SlotKeywords[slot]))

\* C22: a response that does not parse gives the fallback profile; every
\* tech_stack slot of a fallback profile is the value of the first keyword
\* group of the slot, in its fixed priority, with a keyword that occurs in
\* the lower-cased description, and null when none occurs; a description
\* with react, nodejs, mongodb and aws gives react, nodejs, mongodb, aws.
C22_FallbackTechStackByKeyword ==
    /\ (pf_pc = "done" /\ llm_pc = "returned" /\ Loads(llm_out) = DecodeError)
          => pf_branch = "fallback"
    /\ (pf_pc = "done" /\ pf_branch = "fallback") =>
          /\ DOMAIN pf_out.d.tech_stack.d = FiveKeys
          /\ \A slot \in FiveKeys :
                pf_out.d.tech_stack.d[slot]
                  = SlotValue(Lower(description), slot)
          /\ (/\ Contains(Lower(description), S_react)
              /\ Contains(Lower(description), S_nodejs)
              /\ Contains(Lower(description), S_mongodb)
              /\ Contains(Lower(description), S_aws)) =>
                /\ pf_out.d.tech_stack.d.frontend = Str(S_react)
                /\ pf_out.d.tech_stack.d.backend = Str(S_nodejs)
                /\ pf_out.d.tech_stack.d.database = Str(S_mongodb)
                /\ pf_out.d.tech_stack.d.hosting = Str(S_aws)

C22_Witness ==
    /\ pf_pc = "done" /\ pf_branch = "fallback"
    /\ llm_pc = "returned" /\ Loads(llm_out) = DecodeError
    /\ description = S_ExampleDescription
    /\ pf_out.d.tech_stack.d.frontend = Str(S_react)
    /\ pf_out.d.tech_stack.d.backend = Str(S_nodejs)
    /\ pf_out.d.tech_stack.d.database = Str(S_mongodb)
    /\ pf_out.d.tech_stack.d.proxy = Null
    /\ pf_out.d.tech_stack.d.hosting = Str(S_aws)

\* C23: the budget of a fallback profile is the amount that stands before
\* rupees, inr or rs in the description when there is one, and 5000 only
\* when there is none.
C23_FallbackBudgetFromAmount ==
    (pf_pc = "done" /\ pf_branch = "fallback") =>
        pf_out.d.budget_inr_per_month
          = (IF BudgetMatch(Lower(description)) # <<>>
               THEN Num(DigitsToInt(BudgetMatch(Lower(description))))
               ELSE Num(5000))

(***************************************************************************)
(* Further claims about generate_mock_billing (SpecBilling)                *)
(***************************************************************************)
\* the positions of the array whose element the loop accepts
ValidPositions(arr) ==
    {i \in 1..Len(arr) : ValidateRecord(arr[i]).res = "keep"}
\* those among the first 20
FirstTwenty(positions) == {i \in positions : i <= 20}
\* the k-th smallest element of a set of positions
Nth(positions, k) ==
    CHOOSE i \in positions : Cardinality({j \in positions : j < i}) = k - 1
\* out holds the accepted records of arr at the positions kept, in order
RecordsAt(out, arr, kept) ==
    /\ Len(out) = Cardinality(kept)
    /\ \A k \in 1..Len(out) :
          out[k] = ValidateRecord(arr[Nth(kept, k)]).record

\* C25: the array is cut to its first 20 elements before the records are
\* validated: a returned list is exactly the valid records among the first
\* 20 elements, in their order, and a call on an array with fewer than 12
\* valid records among its first 20 elements returns nothing, however many
\* valid records follow.
C25_TrimBeforeValidation ==
    /\ bl_pc = "done" =>
          RecordsAt(bl_out.items, Loads(llm_out).items,
                    FirstTwenty(ValidPositions(Loads(llm_out).items)))
    /\ (/\ bl_pc \in {"done", "raised"}
        /\ llm_pc = "returned"
        /\ Loads(llm_out).t = "list"
        /\ Cardinality(FirstTwenty(ValidPositions(Loads(llm_out).items)))
             < 12)
          => bl_pc = "raised"

C25_Witness ==
    /\ bl_pc = "raised"
    /\ llm_pc = "returned"
    /\ Loads(llm_out).t = "list"
    /\ Len(Loads(llm_out).items) = 21
    /\ Cardinality(ValidPositions(Loads(llm_out).items)) = 12
    /\ Cardinality(FirstTwenty(ValidPositions(Loads(llm_out).items))) = 11
    /\ Len(valid_records) = 11

(***************************************************************************)
(* Claims about the provider selection (SpecProvider)                      *)
(***************************************************************************)
\* the lower-cased hosting string contains one of the keywords
Mentions(h, keywords) ==
    /\ h.t = "str"
    /\ \E k \in keywords : Contains(Lower(h.s), k)

\* C21: a hosting string containing aws or amazon gives AWS; otherwise one
\* containing azure or microsoft gives Azure; otherwise one containing gcp
\* or google gives GCP; every other value gives AWS.
C21_ProviderByKeyword ==
    pv_pc = "done" =>
        provider =
            (IF Mentions(GetHosting(hosting), {S_aws, S_amazon}) THEN S_AWS
             ELSE IF Mentions(GetHosting(hosting), {S_azure, S_microsoft})
               THEN S_Azure_label
             ELSE IF Mentions(GetHosting(hosting), {S_gcp, S_google})
               THEN S_GCP
             ELSE S_AWS)

(***************************************************************************)
(* Claims about run_complete_analysis (SpecRun)                            *)
(***************************************************************************)
\* what a run does when every stage succeeds
FullRun ==
    <<"extract", "write profile", "generate", "write billing", "analyze",
      "write report">>
\* the current run has done s
Did(s) == \E k \in 1..Len(stages) : stages[k] = s
\* the current run is over
RunOver == rn_pc = "menu" /\ run >= 1

\* C27: a run goes through profile extraction, billing synthesis and cost
\* analysis in this order and writes the output of a stage right after the
\* stage; the billing file is written only after the profile file, the
\* report file only when the three stages of the run succeeded; a stage
\* that fails ends the run, no later stage is run and no later file
\* written, and the files written before the failure stay written, while
\* the files not reached keep what an earlier run left.
C27_StagesInOrder ==
    /\ \/ \E n \in 0..Len(FullRun) : stages = SubSeq(FullRun, 1, n)
       \/ \E n \in {0, 2, 4} :
             stages = Append(SubSeq(FullRun, 1, n), "raised")
    /\ (run >= 1 /\ profile_file = run) <=> Did("write profile")
    /\ (run >= 1 /\ billing_file = run) <=> Did("write billing")
    /\ (run >= 1 /\ report_file = run) <=> Did("write report")
    /\ profile_file <= run /\ billing_file <= run /\ report_file <= run
    /\ (run >= 1 /\ billing_file = run) => profile_file = run
    /\ (run >= 1 /\ report_file = run) =>
          /\ stages = FullRun
          /\ profile_file = run /\ billing_file = run
    /\ (RunOver /\ rn_result = "failed") =>
          /\ Did("raised")
          /\ report_file < run
          /\ ~Did("generate") => billing_file < run
    /\ (RunOver /\ rn_result = "finished") => stages = FullRun
    /\ (RunOver /\ rn_result = "no description") => stages = <<>>

C27_Witness ==
    /\ RunOver /\ rn_result = "failed"
    /\ run = 2
    /\ stages = <<"extract", "write profile", "generate", "write billing",
                  "raised">>
    /\ profile_file = 2 /\ billing_file = 2 /\ report_file = 1

====
